---- MODULE Spec2Model ----
(***************************************************************************)
(* Model of the ecosystem-automation tools:                                *)
(*   - collector-watcher: InventoryManager (versioned, per-type YAML files *)
(*     under <root>/<distribution>/v<version>/) and CollectorSync          *)
(*     (process_latest_release / update_snapshot / sync);                  *)
(*   - explorer-db-builder: DatabaseWriter (content-addressed library      *)
(*     files, version indexes, master version list) and run_builder.       *)
(*                                                                         *)
(* Python dicts are functions over their key set; where the insertion      *)
(* order of a dict is observable (yaml.dump with sort_keys=False) the dict *)
(* is a sequence of <<key, value>> pairs.  Strings that the code builds    *)
(* and parses (version strings, directory names) are token sequences.      *)
(***************************************************************************)
EXTENDS Integers, Sequences, FiniteSets, TLC

VARIABLES
    tags,          \* collector: release tags present in each distribution's local clone
    inventory,     \* collector: inventory_dir; distribution -> (dir name -> (file name -> YAML document))
    pc,            \* collector: position of CollectorSync.sync ("idle", "release", "snapshot")
    cur,           \* collector: index into SyncOrder of the distribution sync() is working on
    summary,       \* collector: the summary dict built (and returned) by sync()
    ret,           \* collector: outcome of the last completed InventoryManager / CollectorSync call
    nSaves,        \* collector: number of direct save_version calls made so far
    instrumentations, \* database: <database_dir>/instrumentations; [name, hash] -> file content
    versionIndexes,   \* database: <database_dir>/versions; version string -> index document
    versionsIndex,    \* database: <database_dir>/versions-index.json; <<>> while absent, else <<document>>
    files_written,    \* DatabaseWriter.files_written
    total_bytes,      \* DatabaseWriter.total_bytes
    dbRet,            \* database: the last completed DatabaseWriter call, its arguments and outcome
    javaInventory,    \* java inventory_dir: directory name -> instrumentation.yaml document
    run,              \* run_builder: its position, locals, the calls it made so far, its exit code
    call              \* a function called on its own: its name, its arguments, and its result once it returned

collectorVars == <<tags, inventory, pc, cur, summary, ret, nSaves>>

dbVars == <<instrumentations, versionIndexes, versionsIndex, files_written, total_bytes,
            dbRet, javaInventory, run>>

vars == <<tags, inventory, pc, cur, summary, ret, nSaves,
          instrumentations, versionIndexes, versionsIndex, files_written, total_bytes,
          dbRet, javaInventory, run, call>>

(***************************************************************************)
(* Bounds                                                                  *)
(***************************************************************************)
MaxMinor == 1      \* release tags are 0.1.0 .. 0.MaxMinor.0
MaxSaves == 1      \* direct save_version calls explored between and around syncs
MaxBatch == 2      \* longest libraries list handed to write_libraries
MaxVersions == 2   \* longest versions list handed to write_version_list
MaxFilesWritten == 2 \* DatabaseWriter calls are explored while files_written stays within this
MaxComponents == 2 \* longest component list of one type in an inventory handed to merge_inventories
MaxMajor == 1   \* largest major number of the versions compared
MaxPatch == 1   \* largest patch number of the versions compared

(***************************************************************************)
(* Small helpers                                                           *)
(***************************************************************************)
Range(s) == {s[i] : i \in 1..Len(s)}

EmptyDict == [k \in {} |-> 0]

\* dict.get(key, default)
Get(d, k, default) == IF k \in DOMAIN d THEN d[k] ELSE default

\* the dict d with key k set to v (d[k] = v)
Put(d, k, v) == [x \in (DOMAIN d) \cup {k} |-> IF x = k THEN v ELSE d[x]]

\* the dict d without the keys in ks
Without(d, ks) == [x \in (DOMAIN d) \ ks |-> d[x]]

(***************************************************************************)
(* Versions (semantic_version.Version as used by the tools)                *)
(***************************************************************************)
\* a version: major.minor.patch with an optional -SNAPSHOT prerelease
Version(major, minor, patch, pre) ==
    [major |-> major, minor |-> minor, patch |-> patch, prerelease |-> pre]

\* precedence that looks at the numbers only
VersionLT_NumbersOnly(a, b) ==
    IF a.major # b.major THEN a.major < b.major
    ELSE IF a.minor # b.minor THEN a.minor < b.minor
    ELSE IF a.patch # b.patch THEN a.patch < b.patch
    ELSE FALSE

\* precedence: (major, minor, patch) lexicographically, a prerelease below its release
VersionLT(a, b) ==
    IF a.major # b.major THEN a.major < b.major
    ELSE IF a.minor # b.minor THEN a.minor < b.minor
    ELSE IF a.patch # b.patch THEN a.patch < b.patch
    ELSE IF a.prerelease # b.prerelease THEN a.prerelease
    ELSE FALSE

\* tokens of a version string or directory name: the letter "v", a decimal
\* number, the suffix "-SNAPSHOT"
TokV == [kind |-> "v", n |-> 0]
TokNum(n) == [kind |-> "num", n |-> n]
TokSnapshot == [kind |-> "-SNAPSHOT", n |-> 0]

\* str(version): "0.112.0" or "0.113.0-SNAPSHOT", as tokens
VersionStr(v) ==
    <<TokNum(v.major), TokNum(v.minor), TokNum(v.patch)>>
        \o (IF v.prerelease THEN <<TokSnapshot>> ELSE <<>>)

\* str.lstrip("v"): drop every leading "v"
RECURSIVE LStripV(_)
LStripV(s) == IF s # <<>> /\ Head(s) = TokV THEN LStripV(Tail(s)) ELSE s

\* Version(text): the set holding the parsed version, empty when the text has
\* any other shape (ValueError)
ParseVersion(s) ==
    IF Len(s) \in {3, 4}
       /\ \A i \in 1..3 : s[i].kind = "num"
       /\ (Len(s) = 4 => s[4] = TokSnapshot)
    THEN {Version(s[1].n, s[2].n, s[3].n, Len(s) = 4)}
    ELSE {}

\* the version a well-formed name parses to
Parsed(name) == CHOOSE v \in ParseVersion(LStripV(name)) : TRUE

\* max(version_tags)
MaxVersion(S) == CHOOSE x \in S : \A y \in S \ {x} : VersionLT(y, x)

(***************************************************************************)
(* collector-watcher: fixed sets                                           *)
(***************************************************************************)
Distributions == {"core", "contrib"}

\* self.repos.keys(): the order sync() visits the distributions in
SyncOrder == <<"core", "contrib">>

COMPONENT_TYPES == <<"connector", "exporter", "extension", "processor", "receiver">>

ComponentTypeSet == Range(COMPONENT_TYPES)

\* release tags a clone can carry: v0.1.0 .. v0.<MaxMinor>.0
TagNames == {<<TokV>> \o VersionStr(Version(0, m, 0, FALSE)) : m \in 1..MaxMinor}

\* versions handed to the InventoryManager API directly: a release, the
\* snapshot sync() derives with no release tagged, and the one after the release
ApiVersions ==
    {Version(0, 1, 0, FALSE), Version(0, 0, 1, TRUE), Version(0, 1, 1, TRUE)}

Comp(name, hasMetadata) == [name |-> name, has_metadata |-> hasMetadata]

\* what scanner.scan_all_components() can return: one list per component type
ScanEmpty == [t \in ComponentTypeSet |-> <<>>]

ScanSample ==
    [t \in ComponentTypeSet |->
        CASE t = "exporter" -> <<Comp("loggingexporter", TRUE)>>
          [] t = "receiver" -> <<Comp("otlpreceiver", TRUE), Comp("customreceiver", FALSE)>>
          [] OTHER -> <<>>]

ScanResults == {ScanEmpty, ScanSample}

\* what a scan of distribution d checked out at release tag v returns: a tag
\* names one commit, so every scan of it sees the same tree (main moves, so a
\* snapshot scan can return any of ScanResults)
TagTree(d, v) ==
    IF (d = "core") = (v.minor % 2 = 1) THEN ScanSample ELSE ScanEmpty

\* components mappings handed to save_versioned_inventory directly: a full
\* scan, and a mapping that lacks most types and has an unknown type key
ComponentInputs ==
    {ScanSample,
     [t \in {"processor", "scraper"} |-> <<Comp("batchprocessor", FALSE)>>]}

(***************************************************************************)
(* YAML documents: a mapping dumped with sort_keys=False is the sequence   *)
(* of its <<key, value>> entries in insertion order                        *)
(***************************************************************************)
YamlDump(pairs) == pairs

\* yaml.safe_load of a mapping document: a dict, a repeated key keeps its last value
YamlLoad(doc) ==
    [k \in {doc[i][1] : i \in 1..Len(doc)} |->
        doc[CHOOSE i \in 1..Len(doc) :
                /\ doc[i][1] = k
                /\ \A j \in (i+1)..Len(doc) : doc[j][1] # k][2]]

(***************************************************************************)
(* collector-watcher: InventoryManager                                     *)
(***************************************************************************)
\* inventory_dir / distribution / f"v{version}": the directory name under the distribution
get_version_dir(version) == <<TokV>> \o VersionStr(version)

\* f"{component_type}.yaml"
FileName(component_type) == <<component_type, ".yaml">>

\* ComponentData with the list stored under a misspelt key
ComponentData_MisspeltKey(distribution, version, components, repository, component_type) ==
    << <<"distribution", distribution>>,
       <<"version", VersionStr(version)>>,
       <<"repository", repository>>,
       <<"component_type", component_type>>,
       <<"component", Get(components, component_type, <<>>)>> >>

\* the component_data mapping written for one type
ComponentData(distribution, version, components, repository, component_type) ==
    << <<"distribution", distribution>>,
       <<"version", VersionStr(version)>>,
       <<"repository", repository>>,
       <<"component_type", component_type>>,
       <<"components", Get(components, component_type, <<>>)>> >>

\* save_versioned_inventory: mkdir(exist_ok) and (over)write one file per type;
\* files of the directory that are not per-type files stay
save_versioned_inventory(inv, distribution, version, components, repository) ==
    LET dir == get_version_dir(version)
        old == Get(inv[distribution], dir, EmptyDict)
        files == [f \in (DOMAIN old) \cup {FileName(t) : t \in ComponentTypeSet} |->
                    IF \E t \in ComponentTypeSet : f = FileName(t)
                    THEN LET t == CHOOSE t \in ComponentTypeSet : f = FileName(t)
                         IN YamlDump(ComponentData(distribution, version, components,
                                                   repository, t))
                    ELSE old[f]]
    IN [inv EXCEPT ![distribution] = Put(@, dir, files)]

\* load_versioned_inventory that answers an absent directory with an empty
\* list per component type
load_versioned_inventory_Skeleton(inv, distribution, version) ==
    LET dir == get_version_dir(version)
        files == Get(inv[distribution], dir, EmptyDict)
    IN [distribution |-> distribution, version |-> VersionStr(version),
        components |->
            [t \in ComponentTypeSet |->
                IF FileName(t) \in DOMAIN files
                THEN Get(YamlLoad(files[FileName(t)]), "components", <<>>)
                ELSE <<>>]]

\* load_versioned_inventory
load_versioned_inventory(inv, distribution, version) ==
    LET dir == get_version_dir(version)
    IN IF dir \notin DOMAIN inv[distribution]
       THEN [distribution |-> distribution, version |-> VersionStr(version),
             components |-> EmptyDict]
       ELSE LET files == inv[distribution][dir]
                data(t) == YamlLoad(files[FileName(t)])
                present == {i \in 1..Len(COMPONENT_TYPES) :
                              /\ FileName(COMPONENT_TYPES[i]) \in DOMAIN files
                              /\ Get(data(COMPONENT_TYPES[i]), "repository", "") # ""}
                first == CHOOSE i \in present : \A j \in present : i <= j
            IN [distribution |-> distribution, version |-> VersionStr(version),
                repository |-> IF present = {} THEN ""
                               ELSE data(COMPONENT_TYPES[first])["repository"],
                components |->
                    [t \in ComponentTypeSet |->
                        IF FileName(t) \in DOMAIN files
                        THEN Get(data(t), "components", <<>>)
                        ELSE <<>>]]

\* list_versions: the directory names that parse as versions, newest first
RECURSIVE SortNamesNewestFirst(_)
SortNamesNewestFirst(names) ==
    IF names = {} THEN <<>>
    ELSE LET m == CHOOSE x \in names :
                      \A y \in names : ~VersionLT(Parsed(x), Parsed(y))
         IN <<Parsed(m)>> \o SortNamesNewestFirst(names \ {m})

list_versions(inv, distribution) ==
    SortNamesNewestFirst({name \in DOMAIN inv[distribution] :
                              ParseVersion(LStripV(name)) # {}})

\* list_snapshot_versions without the prerelease filter
list_snapshot_versions_All(inv, distribution) == list_versions(inv, distribution)

\* list_snapshot_versions: [v for v in all_versions if v.prerelease]
list_snapshot_versions(inv, distribution) ==
    SelectSeq(list_versions(inv, distribution), LAMBDA v : v.prerelease)

\* version_exists that looks for the directory without its "v" prefix
version_exists_NoPrefix(inv, distribution, version) ==
    VersionStr(version) \in DOMAIN inv[distribution]

\* version_exists: the version directory exists
version_exists(inv, distribution, version) ==
    get_version_dir(version) \in DOMAIN inv[distribution]

\* the cleanup loop counting the listed snapshots without removing a directory
RemoveDirs_CountOnly(inv, distribution, snapshots, count) ==
    <<inv, count + Len(snapshots)>>

\* cleanup_snapshots: rmtree every listed snapshot's directory that exists;
\* the result is the pair <<inventory afterwards, count removed>>
RECURSIVE RemoveDirs(_, _, _, _)
RemoveDirs(inv, distribution, snapshots, count) ==
    IF snapshots = <<>> THEN <<inv, count>>
    ELSE LET dir == get_version_dir(Head(snapshots))
         IN IF dir \in DOMAIN inv[distribution]
            THEN RemoveDirs([inv EXCEPT ![distribution] = Without(@, {dir})],
                            distribution, Tail(snapshots), count + 1)
            ELSE RemoveDirs(inv, distribution, Tail(snapshots), count)

\* cleanup_snapshots that removes only the newest snapshot
cleanup_snapshots_OnlyNewest(inv, distribution) ==
    LET snapshots == list_snapshot_versions(inv, distribution)
    IN RemoveDirs(inv, distribution,
                  IF snapshots = <<>> THEN <<>> ELSE <<Head(snapshots)>>, 0)

cleanup_snapshots(inv, distribution) ==
    RemoveDirs(inv, distribution, list_snapshot_versions(inv, distribution), 0)

(***************************************************************************)
(* collector-watcher: VersionDetector                                      *)
(***************************************************************************)
\* get_latest_release_tag: the set holding the greatest non-prerelease tag
\* that parses as a version, empty (None) when there is none
get_latest_release_tag(tagNames) ==
    LET version_tags == {Parsed(t) : t \in {n \in tagNames :
                              /\ ParseVersion(LStripV(n)) # {}
                              /\ ~Parsed(n).prerelease}}
    IN IF version_tags = {} THEN {} ELSE {MaxVersion(version_tags)}

\* determine_next_snapshot_version
determine_next_snapshot_version(tagNames) ==
    LET latest == get_latest_release_tag(tagNames)
    IN IF latest = {} THEN Version(0, 0, 1, TRUE)
       ELSE LET l == CHOOSE v \in latest : TRUE
            IN Version(l.major, l.minor, l.patch + 1, TRUE)

(***************************************************************************)
(* collector-watcher: CollectorSync                                        *)
(***************************************************************************)
get_repository_name(distribution) ==
    IF distribution = "core" THEN "opentelemetry-collector"
    ELSE IF distribution = "contrib" THEN "opentelemetry-collector-contrib"
    ELSE "opentelemetry-collector-other"

\* the record of the last completed call: which operation, on what, with what result
Ret(op, dist, version, arg, value) ==
    [op |-> op, dist |-> dist, version |-> version, arg |-> arg, value |-> value]

NoVersion == Version(0, 0, 0, FALSE)

EmptySummary == [new_releases |-> <<>>, snapshots_updated |-> <<>>]

SummaryItem(distribution, version) ==
    [distribution |-> distribution, version |-> VersionStr(version)]

InitCollector ==
    /\ tags = [d \in Distributions |-> {}]
    /\ inventory = [d \in Distributions |-> EmptyDict]
    /\ pc = "idle"
    /\ cur = 0
    /\ summary = EmptySummary
    /\ ret = Ret("none", "", NoVersion, EmptyDict, 0)
    /\ nSaves = 0

\* the next release is tagged in a distribution's clone (between runs)
NewTag(d) ==
    /\ pc = "idle"
    /\ \E t \in TagNames \ tags[d] :
          /\ \A u \in TagNames : VersionLT(Parsed(u), Parsed(t)) => u \in tags[d]
          /\ tags' = [tags EXCEPT ![d] = @ \cup {t}]
    /\ UNCHANGED <<inventory, pc, cur, summary, ret, nSaves>>
    /\ UNCHANGED dbVars
    /\ UNCHANGED call

\* CollectorSync.save_version called directly
SaveVersion(d, v, components) ==
    /\ pc = "idle"
    /\ inventory' = save_versioned_inventory(inventory, d, v, components,
                                             get_repository_name(d))
    /\ ret' = Ret("save", d, v, components, 0)
    /\ UNCHANGED <<tags, pc, cur, summary>>
    /\ UNCHANGED dbVars
    /\ UNCHANGED call

\* save_version called between runs of sync(), a bounded number of times
DirectSave(d, v, components) ==
    /\ nSaves < MaxSaves
    /\ nSaves' = nSaves + 1
    /\ SaveVersion(d, v, components)

\* save_version called on the bare store
StoreSave(d, v, components) ==
    /\ SaveVersion(d, v, components)
    /\ UNCHANGED nSaves

\* InventoryManager.load_versioned_inventory called directly
LoadVersion(d, v) ==
    /\ pc = "idle"
    /\ ret' = Ret("load", d, v, EmptyDict, load_versioned_inventory(inventory, d, v))
    /\ UNCHANGED <<tags, inventory, pc, cur, summary, nSaves>>
    /\ UNCHANGED dbVars
    /\ UNCHANGED call

\* InventoryManager.cleanup_snapshots called directly
CleanupSnapshots(d) ==
    /\ pc = "idle"
    /\ LET r == cleanup_snapshots(inventory, d)
       IN /\ inventory' = r[1]
          /\ ret' = Ret("cleanup", d, NoVersion, EmptyDict, r[2])
    /\ UNCHANGED <<tags, pc, cur, summary, nSaves>>
    /\ UNCHANGED dbVars
    /\ UNCHANGED call

\* sync(): start of the loop over self.repos
SyncStart ==
    /\ pc = "idle"
    /\ pc' = "release"
    /\ cur' = 1
    /\ summary' = EmptySummary
    /\ UNCHANGED <<tags, inventory, ret, nSaves>>
    /\ UNCHANGED dbVars
    /\ UNCHANGED call

\* process_latest_release(d), as sync() calls it; the call returns None (no release, or already tracked) or the
\* version it scanned and saved
ProcessLatestRelease(d) ==
    /\ pc = "release"
    /\ d = SyncOrder[cur]
    /\ LET latest == get_latest_release_tag(tags[d])
       IN IF latest = {}
          THEN /\ ret' = Ret("process_latest_release", d, NoVersion, EmptyDict, "None")
               /\ UNCHANGED <<inventory, summary>>
          ELSE LET l == CHOOSE v \in latest : TRUE
               IN IF version_exists(inventory, d, l)
                  THEN /\ ret' = Ret("process_latest_release", d, l, EmptyDict, "None")
                       /\ UNCHANGED <<inventory, summary>>
                  ELSE \E components \in {TagTree(d, l)} :
                        /\ inventory' = save_versioned_inventory(inventory, d, l, components,
                                                                 get_repository_name(d))
                        /\ summary' = [summary EXCEPT !.new_releases =
                                          Append(@, SummaryItem(d, l))]
                        /\ ret' = Ret("process_latest_release", d, l, components, "saved")
    /\ pc' = "snapshot"
    /\ UNCHANGED <<tags, cur, nSaves>>
    /\ UNCHANGED dbVars
    /\ UNCHANGED call

\* process_latest_release(d) raising from scan_version (checkout or scanner
\* construction failed): nothing was saved and sync() propagates the error
ProcessLatestReleaseFails(d) ==
    /\ pc = "release"
    /\ d = SyncOrder[cur]
    /\ LET latest == get_latest_release_tag(tags[d])
       IN /\ latest # {}
          /\ ~version_exists(inventory, d, CHOOSE v \in latest : TRUE)
    /\ pc' = "idle"
    /\ cur' = 0
    /\ summary' = EmptySummary
    /\ ret' = Ret("sync_error", d, NoVersion, EmptyDict, 0)
    /\ UNCHANGED <<tags, inventory, nSaves>>
    /\ UNCHANGED dbVars
    /\ UNCHANGED call

\* update_snapshot(d), as sync() calls it: cleanup, next version, scan, save
UpdateSnapshot(d) ==
    /\ pc = "snapshot"
    /\ d = SyncOrder[cur]
    /\ LET cleaned == cleanup_snapshots(inventory, d)
           snapshot_version == determine_next_snapshot_version(tags[d])
       IN \E components \in ScanResults :
            /\ inventory' = save_versioned_inventory(cleaned[1], d, snapshot_version,
                                                     components, get_repository_name(d))
            /\ summary' = [summary EXCEPT !.snapshots_updated =
                              Append(@, SummaryItem(d, snapshot_version))]
            /\ ret' = Ret("update_snapshot", d, snapshot_version, components, cleaned[2])
    /\ IF cur < Len(SyncOrder)
       THEN pc' = "release" /\ cur' = cur + 1
       ELSE pc' = "return" /\ cur' = 0
    /\ UNCHANGED <<tags, nSaves>>
    /\ UNCHANGED dbVars
    /\ UNCHANGED call

\* update_snapshot(d) raising from scan_version after the cleanup was done
\* (and its count of removed snapshots logged)
UpdateSnapshotFails(d) ==
    /\ pc = "snapshot"
    /\ d = SyncOrder[cur]
    /\ LET cleaned == cleanup_snapshots(inventory, d)
       IN /\ inventory' = cleaned[1]
          /\ ret' = Ret("update_snapshot_error", d, NoVersion, EmptyDict, cleaned[2])
    /\ pc' = "idle"
    /\ cur' = 0
    /\ summary' = EmptySummary
    /\ UNCHANGED <<tags, nSaves>>
    /\ UNCHANGED dbVars
    /\ UNCHANGED call

\* sync() returns its summary
SyncReturn ==
    /\ pc = "return"
    /\ pc' = "idle"
    /\ summary' = EmptySummary
    /\ ret' = Ret("sync", "", NoVersion, EmptyDict, summary)
    /\ UNCHANGED <<tags, inventory, cur, nSaves>>
    /\ UNCHANGED dbVars
    /\ UNCHANGED call

\* the sync workflow over an inventory that direct saves may have populated
Next ==
    \/ \E d \in Distributions : NewTag(d)
    \/ \E d \in Distributions, v \in ApiVersions, c \in ComponentInputs \ ScanResults :
          DirectSave(d, v, c)
    \/ SyncStart
    \/ \E d \in Distributions : ProcessLatestRelease(d)
    \/ \E d \in Distributions : ProcessLatestReleaseFails(d)
    \/ \E d \in Distributions : UpdateSnapshot(d)
    \/ \E d \in Distributions : UpdateSnapshotFails(d)
    \/ SyncReturn

\* a DatabaseWriter just constructed over an absent database directory, an
\* empty java inventory directory, and run_builder not running
NoStats == [files_written |-> 0, total_bytes |-> 0]

NoCall == [op |-> "none", arg |-> <<>>, raised |-> "", value |-> EmptyDict, before |-> NoStats]

NotRunning ==
    [pc |-> "idle", clean |-> FALSE, versions |-> <<>>, i |-> 0, library_map |-> EmptyDict,
     trace |-> <<>>, exit |-> -1]

InitDb ==
    /\ instrumentations = EmptyDict
    /\ versionIndexes = EmptyDict
    /\ versionsIndex = <<>>
    /\ files_written = 0
    /\ total_bytes = 0
    /\ dbRet = NoCall
    /\ javaInventory = EmptyDict
    /\ run = NotRunning

\* no function is being called on its own
NotCalled == [op |-> "none", done |-> TRUE]

\* the tools as constructed, before any of their operations
InitTools == InitCollector /\ InitDb

Init == InitTools /\ call = NotCalled

Spec == Init /\ [][Next]_vars

\* the InventoryManager operations called directly, in any order
NextStore ==
    \/ \E d \in Distributions, v \in ApiVersions, c \in ComponentInputs : StoreSave(d, v, c)
    \/ \E d \in Distributions, v \in ApiVersions : LoadVersion(d, v)
    \/ \E d \in Distributions : CleanupSnapshots(d)

SpecStore == Init /\ [][NextStore]_vars

(***************************************************************************)
(* explorer-db-builder: JSON values                                        *)
(* A value is a string, a list, a dict (its <<key, value>> entries in      *)
(* insertion order, keys unique) or an object json cannot serialize.       *)
(***************************************************************************)
Str(s) == [t |-> "str", s |-> s, items |-> <<>>]

List(items) == [t |-> "list", s |-> "", items |-> items]

\* the entry of a dict
KV(key, value) == [k |-> key, val |-> value]

Dict(entries) == [t |-> "dict", s |-> "", items |-> entries]

Unserializable == [t |-> "obj", s |-> "", items |-> <<>>]

\* isinstance(obj, dict)
IsDict(obj) == obj.t = "dict"

\* obj.keys(), key in obj, obj[key]
Keys(obj) == {obj.items[i].k : i \in 1..Len(obj.items)}

HasKey(obj, key) == key \in Keys(obj)

Item(obj, key) == obj.items[CHOOSE i \in 1..Len(obj.items) : obj.items[i].k = key].val

\* the keys the library documents use, in the order sorted() puts them
KeyAlphabet == <<"description", "name", "version">>

\* the entries of a dict whose key is one of KeyAlphabet[i..], in sorted key order
RECURSIVE SortedFrom(_, _)
SortedFrom(entries, i) ==
    IF i > Len(KeyAlphabet) THEN <<>>
    ELSE SelectSeq(entries, LAMBDA e : e.k = KeyAlphabet[i]) \o SortedFrom(entries, i + 1)

\* content_hashing.normalize_for_hashing raises TypeError exactly on a value
\* that holds an object that is none of None, bool, int, float, str, list, dict
RECURSIVE Serializable(_)
Serializable(obj) ==
    CASE obj.t = "str" -> TRUE
      [] obj.t = "list" -> \A i \in 1..Len(obj.items) : Serializable(obj.items[i])
      [] obj.t = "dict" -> \A i \in 1..Len(obj.items) : Serializable(obj.items[i].val)
      [] OTHER -> FALSE

\* normalize_for_hashing that sorts the keys of the outermost dict only
normalize_for_hashing_Outermost(obj) ==
    IF obj.t = "dict" THEN Dict(SortedFrom(obj.items, 1)) ELSE obj

\* content_hashing.normalize_for_hashing, on a value it does not raise on
RECURSIVE normalize_for_hashing(_)
normalize_for_hashing(obj) ==
    CASE obj.t = "list" ->
            List([i \in 1..Len(obj.items) |-> normalize_for_hashing(obj.items[i])])
      [] obj.t = "dict" ->
            LET sorted == SortedFrom(obj.items, 1)
            IN Dict([i \in 1..Len(sorted) |->
                        KV(sorted[i].k, normalize_for_hashing(sorted[i].val))])
      [] OTHER -> obj

\* json.dumps(obj, sort_keys=True, ...): the text is fixed by the layout
\* (indent or separators) and the value with every dict's keys sorted
JsonDumps(obj, layout) == [layout |-> layout, text |-> normalize_for_hashing(obj)]

\* len(content.encode("utf-8")): one unit per string, list, dict and key
RECURSIVE ByteSize(_)
ByteSize(obj) ==
    LET RECURSIVE Sum(_)
        Sum(i) == IF i > Len(obj.items) THEN 0
                  ELSE Sum(i + 1) + (IF obj.t = "dict" THEN 1 + ByteSize(obj.items[i].val)
                                     ELSE ByteSize(obj.items[i]))
    IN 1 + Sum(1)

\* hashlib.sha256(text).hexdigest()[:12]: a digest names its text (two texts
\* with one digest are not modelled)
Sha256(text) == [sha256 |-> text]

\* content_hashing.content_hash: the set holding the hash, empty when it raises TypeError
content_hash_Raw(data) ==
    IF Serializable(data) THEN {Sha256([layout |-> "compact", text |-> data])} ELSE {}

content_hash(data) ==
    IF Serializable(data)
    THEN {Sha256(JsonDumps(normalize_for_hashing(data), "compact"))}
    ELSE {}

(***************************************************************************)
(* explorer-db-builder: DatabaseWriter                                     *)
(***************************************************************************)
\* entries a libraries list can hold
LibAkka == Dict(<< KV("name", Str("akka-http")), KV("version", Str("1.0")) >>)

\* the same content as LibAkka with its keys in another order
LibAkkaReordered == Dict(<< KV("version", Str("1.0")), KV("name", Str("akka-http")) >>)

\* the same name as LibAkka with other content
LibAkka2 == Dict(<< KV("name", Str("akka-http")), KV("version", Str("2.0")) >>)

LibJdbc ==
    Dict(<< KV("name", Str("jdbc")), KV("description", List(<<Str("JDBC"), Str("SQL")>>)) >>)

LibNoName == Dict(<< KV("version", Str("1.0")) >>)

LibNotDict == Str("invalid")

LibUnserializable == Dict(<< KV("name", Str("bad-lib")), KV("version", Unserializable) >>)

\* entries write_libraries can process
ValidLibraries == {LibAkka, LibAkkaReordered, LibAkka2, LibJdbc}

\* entries write_libraries skips: no dict, no name, a content that cannot be hashed
BadLibraries == {LibNoName, LibNotDict, LibUnserializable}

\* the lists of valid entries handed to write_libraries
LibraryLists == UNION {[1..n -> ValidLibraries] : n \in 0..MaxBatch}

\* the lists of valid and bad entries handed to write_libraries
MixedLists ==
    UNION {[1..n -> {LibAkka, LibJdbc} \cup BadLibraries] : n \in 0..MaxBatch}

\* the writer's fields and the files below database_dir, as one record
Db == [instrumentations |-> instrumentations, versionIndexes |-> versionIndexes,
       versionsIndex |-> versionsIndex, files_written |-> files_written,
       total_bytes |-> total_bytes]

\* get_stats
get_stats(db) == [files_written |-> db.files_written, total_bytes |-> db.total_bytes]

\* _get_file_path: instrumentations/<name>/<name>-<hash>.json; the division
\* of a Path by a name that is no string raises TypeError (the empty set)
get_file_path(library_name, library_hash) ==
    IF library_name.t = "str"
    THEN {[name |-> library_name.s, hash |-> library_hash]}
    ELSE {}

\* file_path.exists(), as write_libraries asks it, but never finding the file
file_exists_Never(db, file_path) == FALSE

\* file_path.exists(), as write_libraries asks it
file_exists(db, file_path) == file_path \in DOMAIN db.instrumentations

\* the body of write_libraries' loop for one entry, but with the first bad
\* entry ending the loop's effect: a bad entry empties the map
write_library_Abort(st, library) ==
    IF ~IsDict(library) \/ ~HasKey(library, "name") \/ content_hash(library) = {}
       \/ get_file_path(Item(library, "name"), 0) = {}
    THEN [st EXCEPT !.library_map = EmptyDict]
    ELSE LET library_hash == CHOOSE h \in content_hash(library) : TRUE
             file_path == CHOOSE f \in get_file_path(Item(library, "name"), library_hash) : TRUE
             content == JsonDumps(library, "indent2")
             written == IF file_exists(st.db, file_path) THEN st.db
                        ELSE [st.db EXCEPT
                                !.instrumentations = Put(@, file_path, content),
                                !.files_written = @ + 1,
                                !.total_bytes = @ + ByteSize(content.text)]
         IN [db |-> written, library_map |-> Put(st.library_map, file_path.name, library_hash)]

\* the body of write_libraries' loop for one entry: st holds the database and
\* the library_map built so far
write_library(st, library) ==
    IF ~IsDict(library) THEN st
    ELSE IF ~HasKey(library, "name") THEN st
    ELSE LET library_name == Item(library, "name")
             hashed == content_hash(library)
         IN IF hashed = {} THEN st
            ELSE LET library_hash == CHOOSE h \in hashed : TRUE
                     path == get_file_path(library_name, library_hash)
                 IN IF path = {} THEN st
                    ELSE LET file_path == CHOOSE f \in path : TRUE
                             content == JsonDumps(library, "indent2")
                             written ==
                                IF file_exists(st.db, file_path) THEN st.db
                                ELSE [st.db EXCEPT
                                        !.instrumentations = Put(@, file_path, content),
                                        !.files_written = @ + 1,
                                        !.total_bytes = @ + ByteSize(content.text)]
                         IN [db |-> written,
                             library_map |-> Put(st.library_map, file_path.name, library_hash)]

\* write_libraries' loop over libraries[i..]
RECURSIVE write_libraries_loop(_, _, _)
write_libraries_loop(st, libraries, i) ==
    IF i > Len(libraries) THEN st
    ELSE write_libraries_loop(write_library(st, libraries[i]), libraries, i + 1)

\* write_libraries: the database after the call, the exception raised ("" for
\* none) and the map returned
write_libraries(db, libraries) ==
    IF libraries = <<>>
    THEN [db |-> db, raised |-> "ValueError", library_map |-> EmptyDict]
    ELSE LET st == write_libraries_loop([db |-> db, library_map |-> EmptyDict], libraries, 1)
         IN IF st.library_map = EmptyDict
            THEN [db |-> st.db, raised |-> "ValueError", library_map |-> EmptyDict]
            ELSE [db |-> st.db, raised |-> "", library_map |-> st.library_map]

\* clean: the database directory removed and recreated empty
clean(db) ==
    [db EXCEPT !.instrumentations = EmptyDict, !.versionIndexes = EmptyDict,
               !.versionsIndex = <<>>]

\* the database and the writer's counters become those of db
SetDb(db) ==
    /\ instrumentations' = db.instrumentations
    /\ versionIndexes' = db.versionIndexes
    /\ versionsIndex' = db.versionsIndex
    /\ files_written' = db.files_written
    /\ total_bytes' = db.total_bytes

\* a completed DatabaseWriter call
Call(op, arg, raised, value) ==
    [op |-> op, arg |-> arg, raised |-> raised, value |-> value, before |-> get_stats(Db)]

\* DatabaseWriter.write_libraries(libraries) called directly
WriteLibraries(libraries) ==
    /\ run.pc = "idle"
    /\ LET r == write_libraries(Db, libraries)
       IN /\ SetDb(r.db)
          /\ dbRet' = Call("write_libraries", libraries, r.raised, r.library_map)
    /\ files_written' <= MaxFilesWritten
    /\ UNCHANGED <<javaInventory, run>>
    /\ UNCHANGED collectorVars
    /\ UNCHANGED call

\* DatabaseWriter.clean() called directly
Clean ==
    /\ run.pc = "idle"
    /\ SetDb(clean(Db))
    /\ dbRet' = Call("clean", <<>>, "", EmptyDict)
    /\ UNCHANGED <<javaInventory, run>>
    /\ UNCHANGED collectorVars
    /\ UNCHANGED call

\* DatabaseWriter(database_dir) constructed over the directory as it is
NewWriter ==
    /\ run.pc = "idle"
    /\ files_written' = 0
    /\ total_bytes' = 0
    /\ dbRet' = NoCall
    /\ UNCHANGED <<instrumentations, versionIndexes, versionsIndex, javaInventory, run>>
    /\ UNCHANGED collectorVars
    /\ UNCHANGED call

\* one DatabaseWriter's write_libraries and clean calls, in any order
NextLibraries ==
    \/ \E libraries \in LibraryLists : WriteLibraries(libraries)
    \/ Clean

SpecLibraries == Init /\ [][NextLibraries]_vars

\* write_libraries called with lists that mix valid and bad entries, by
\* writers constructed one after another over the same directory
NextBatches ==
    \/ \E libraries \in MixedLists : WriteLibraries(libraries)
    \/ NewWriter

SpecBatches == Init /\ [][NextBatches]_vars

\* versions the java inventory and the database are about: two releases and a snapshot
JavaVersions == {Version(1, 0, 0, FALSE), Version(2, 0, 0, FALSE), Version(2, 0, 1, TRUE)}

\* the lists handed to write_version_list
VersionLists == UNION {[1..n -> JavaVersions] : n \in 0..MaxVersions}

\* a writer just constructed over an empty database directory
NewDb == [instrumentations |-> EmptyDict, versionIndexes |-> EmptyDict,
          versionsIndex |-> <<>>, files_written |-> 0, total_bytes |-> 0]

\* name-to-hash maps handed to write_version_index directly: the empty map
\* and maps write_libraries returns
LibraryMaps ==
    {EmptyDict,
     write_libraries(NewDb, <<LibAkka>>).library_map,
     write_libraries(NewDb, <<LibAkka2, LibJdbc>>).library_map}

\* write_version_index: versions/<version>-index.json holds the version
\* string and the map; ValueError on an empty map
write_version_index(db, version, library_map) ==
    IF library_map = EmptyDict
    THEN [db |-> db, raised |-> "ValueError"]
    ELSE LET version_data ==
                [version |-> VersionStr(version), instrumentations |-> library_map]
         IN [db |-> [db EXCEPT
                       !.versionIndexes = Put(@, VersionStr(version), version_data),
                       !.files_written = @ + 1,
                       !.total_bytes = @ + 2 + Len(VersionStr(version))
                                         + 2 * Cardinality(DOMAIN library_map)],
             raised |-> ""]

\* the entries of the master index as write_version_list builds them
version_list_data(versions) ==
    [i \in 1..Len(versions) |->
        [version |-> VersionStr(versions[i]), is_latest |-> versions[i] = versions[1]]]

\* write_version_list: versions-index.json holds one entry per element;
\* ValueError on an empty list
write_version_list(db, versions) ==
    IF versions = <<>>
    THEN [db |-> db, raised |-> "ValueError"]
    ELSE LET final_data == [versions |-> version_list_data(versions)]
         IN [db |-> [db EXCEPT
                       !.versionsIndex = <<final_data>>,
                       !.files_written = @ + 1,
                       !.total_bytes = @ + 2 + 4 * Len(versions)],
             raised |-> ""]

\* DatabaseWriter.write_version_index(version, library_map) called directly
WriteVersionIndex(version, library_map) ==
    /\ run.pc = "idle"
    /\ LET r == write_version_index(Db, version, library_map)
       IN /\ SetDb(r.db)
          /\ dbRet' = Call("write_version_index", <<version>>, r.raised, library_map)
    /\ files_written' <= MaxFilesWritten
    /\ UNCHANGED <<javaInventory, run>>
    /\ UNCHANGED collectorVars
    /\ UNCHANGED call

\* DatabaseWriter.write_version_list(versions) called directly
WriteVersionList(versions) ==
    /\ run.pc = "idle"
    /\ LET r == write_version_list(Db, versions)
       IN /\ SetDb(r.db)
          /\ dbRet' = Call("write_version_list", versions, r.raised, EmptyDict)
    /\ files_written' <= MaxFilesWritten
    /\ UNCHANGED <<javaInventory, run>>
    /\ UNCHANGED collectorVars
    /\ UNCHANGED call

\* one DatabaseWriter's index-writing calls and clean, in any order
NextIndex ==
    \/ \E version \in JavaVersions, m \in LibraryMaps : WriteVersionIndex(version, m)
    \/ \E versions \in VersionLists : WriteVersionList(versions)
    \/ Clean

SpecIndex == Init /\ [][NextIndex]_vars

(***************************************************************************)
(* java-instrumentation-watcher: InventoryManager                          *)
(***************************************************************************)
\* str(version) as a string value of a document
VersionText(version) == [t |-> "str", s |-> "", items |-> VersionStr(version)]

\* the instrumentations handed to save_versioned_inventory: full structures
\* with a libraries list (one of them empty), and a bare list of the old format
InvFull ==
    Dict(<< KV("file_format", Str("0.1")), KV("libraries", List(<<LibAkka, LibJdbc>>)) >>)

InvNext == Dict(<< KV("libraries", List(<<LibAkka2, LibNoName, LibJdbc>>)) >>)

InvNoLibraries == Dict(<< KV("libraries", List(<<>>)) >>)

InvBareList == List(<<LibAkka>>)

JavaInputs == {InvFull, InvNext, InvNoLibraries, InvBareList}

\* {**a, **b}: the entries of a with b's values for the keys b has, then b's other entries
MergeDicts(a, b) ==
    [i \in 1..Len(a) |-> IF \E j \in 1..Len(b) : b[j].k = a[i].k
                         THEN KV(a[i].k, Item(Dict(b), a[i].k)) ELSE a[i]]
        \o SelectSeq(b, LAMBDA e : \A i \in 1..Len(a) : a[i].k # e.k)

\* yaml.dump(data, sort_keys=False) of a mapping, and yaml.safe_load(f) or {}
JavaYamlDump(data) == data.items

JavaYamlLoad(doc) == Dict(doc)

\* save_versioned_inventory: v<version>/instrumentation.yaml written
java_save_versioned_inventory(inv, version, instrs, repository) ==
    LET head == << KV("version", VersionText(version)), KV("repository", Str(repository)) >>
        inventory_data ==
            IF IsDict(instrs)
            THEN Dict(MergeDicts(head, instrs.items))
            ELSE Dict(head \o << KV("instrumentations", instrs) >>)
    IN Put(inv, get_version_dir(version), JavaYamlDump(inventory_data))

\* load_versioned_inventory: the document as stored, or the empty structure
java_load_versioned_inventory(inv, version) ==
    IF get_version_dir(version) \notin DOMAIN inv
    THEN Dict(<< KV("version", VersionText(version)),
                 KV("repository", Str("opentelemetry-java-instrumentation")),
                 KV("instrumentations", List(<<>>)) >>)
    ELSE JavaYamlLoad(inv[get_version_dir(version)])

\* list_versions: the directory names that parse as versions, newest first
java_list_versions(inv) ==
    SortNamesNewestFirst({name \in DOMAIN inv : ParseVersion(LStripV(name)) # {}})

\* InventoryManager.save_versioned_inventory(version, instrumentations) called
\* for a version the inventory does not hold yet
JavaSave(version, instrs) ==
    /\ run.pc = "idle"
    /\ get_version_dir(version) \notin DOMAIN javaInventory
    /\ javaInventory' = java_save_versioned_inventory(javaInventory, version, instrs,
                                                      "opentelemetry-java-instrumentation")
    /\ UNCHANGED <<instrumentations, versionIndexes, versionsIndex, files_written,
                   total_bytes, dbRet, run>>
    /\ UNCHANGED collectorVars
    /\ UNCHANGED call

(***************************************************************************)
(* explorer-db-builder: main                                               *)
(***************************************************************************)
\* get_release_versions without the prerelease filter
get_release_versions_All(inv) ==
    LET versions == java_list_versions(inv)
    IN IF versions = <<>> THEN [raised |-> "ValueError", versions |-> <<>>]
       ELSE [raised |-> "", versions |-> versions]

\* get_release_versions: the listed versions that are no prerelease;
\* ValueError when there is none
get_release_versions(inv) ==
    LET versions == java_list_versions(inv)
        release_versions == SelectSeq(versions, LAMBDA v : ~v.prerelease)
    IN IF versions = <<>> THEN [raised |-> "ValueError", versions |-> <<>>]
       ELSE IF release_versions = <<>> THEN [raised |-> "ValueError", versions |-> <<>>]
       ELSE [raised |-> "", versions |-> release_versions]

\* a call run_builder made
Event(ev, version) == [ev |-> ev, version |-> version]

\* run_builder returning code
Return(code) == [run EXCEPT !.pc = "idle", !.exit = code]

\* run_builder(clean) starts: a DatabaseWriter is constructed over the database directory
BuildStart(cleanFirst) ==
    /\ run.pc = "idle"
    /\ run' = [NotRunning EXCEPT !.pc = IF cleanFirst THEN "clean" ELSE "read",
                                 !.clean = cleanFirst]
    /\ files_written' = 0
    /\ total_bytes' = 0
    /\ dbRet' = NoCall
    /\ UNCHANGED <<instrumentations, versionIndexes, versionsIndex, javaInventory>>
    /\ UNCHANGED collectorVars
    /\ UNCHANGED call

\* if clean: db_writer.clean()
BuildClean ==
    /\ run.pc = "clean"
    /\ SetDb(clean(Db))
    /\ dbRet' = Call("clean", <<>>, "", EmptyDict)
    /\ run' = [run EXCEPT !.pc = "read", !.trace = Append(@, Event("clean", NoVersion))]
    /\ UNCHANGED javaInventory
    /\ UNCHANGED collectorVars
    /\ UNCHANGED call

\* versions = get_release_versions(inventory_manager)
BuildRead ==
    /\ run.pc = "read"
    /\ LET r == get_release_versions(javaInventory)
           read == [run EXCEPT !.trace = Append(@, Event("read", NoVersion))]
       IN run' = IF r.raised # ""
                 THEN [read EXCEPT !.pc = "idle", !.exit = 1]
                 ELSE [read EXCEPT !.pc = "libraries", !.versions = r.versions, !.i = 1]
    /\ UNCHANGED <<instrumentations, versionIndexes, versionsIndex, files_written,
                   total_bytes, dbRet, javaInventory>>
    /\ UNCHANGED collectorVars
    /\ UNCHANGED call

\* process_version up to and including db_writer.write_libraries(libraries)
BuildLibraries ==
    /\ run.pc = "libraries"
    /\ LET version == run.versions[run.i]
           inventoryDoc == java_load_versioned_inventory(javaInventory, version)
       IN IF ~HasKey(inventoryDoc, "libraries")
          THEN /\ run' = Return(1)
               /\ UNCHANGED <<instrumentations, versionIndexes, versionsIndex, files_written,
                              total_bytes, dbRet>>
          ELSE LET libraries == Item(inventoryDoc, "libraries").items
               IN IF libraries = <<>>
                  THEN /\ run' = Return(1)
                       /\ UNCHANGED <<instrumentations, versionIndexes, versionsIndex,
                                      files_written, total_bytes, dbRet>>
                  ELSE LET r == write_libraries(Db, libraries)
                       IN /\ SetDb(r.db)
                          /\ dbRet' = Call("write_libraries", libraries, r.raised, r.library_map)
                          /\ run' = IF r.raised # ""
                                    THEN [Return(1) EXCEPT !.trace =
                                             Append(@, Event("libraries", version))]
                                    ELSE [run EXCEPT !.pc = "index",
                                                     !.library_map = r.library_map,
                                                     !.trace = Append(@, Event("libraries", version))]
    /\ UNCHANGED javaInventory
    /\ UNCHANGED collectorVars
    /\ UNCHANGED call

\* process_version's db_writer.write_version_index(version, library_map)
BuildIndex ==
    /\ run.pc = "index"
    /\ LET version == run.versions[run.i]
           r == write_version_index(Db, version, run.library_map)
       IN /\ SetDb(r.db)
          /\ dbRet' = Call("write_version_index", <<version>>, r.raised, run.library_map)
          /\ run' = IF r.raised # ""
                    THEN Return(1)
                    ELSE [run EXCEPT !.pc = IF run.i < Len(run.versions) THEN "libraries"
                                            ELSE "list",
                                     !.i = @ + 1,
                                     !.trace = Append(@, Event("index", version))]
    /\ UNCHANGED javaInventory
    /\ UNCHANGED collectorVars
    /\ UNCHANGED call

\* db_writer.write_version_list(versions), the statistics, return 0
BuildList ==
    /\ run.pc = "list"
    /\ LET r == write_version_list(Db, run.versions)
       IN /\ SetDb(r.db)
          /\ dbRet' = Call("write_version_list", run.versions, r.raised, EmptyDict)
          /\ run' = IF r.raised # ""
                    THEN Return(1)
                    ELSE [Return(0) EXCEPT !.trace = Append(@, Event("list", NoVersion))]
    /\ UNCHANGED javaInventory
    /\ UNCHANGED collectorVars
    /\ UNCHANGED call

\* runs of run_builder over a java inventory that grows between them
NextBuilder ==
    \/ \E version \in JavaVersions, instr \in JavaInputs : JavaSave(version, instr)
    \/ \E cleanFirst \in BOOLEAN : BuildStart(cleanFirst)
    \/ BuildClean
    \/ BuildRead
    \/ BuildLibraries
    \/ BuildIndex
    \/ BuildList

SpecBuilder == Init /\ [][NextBuilder]_vars

(***************************************************************************)
(* documentation-sync: merge_inventories                                   *)
(* A dict key that may be missing is a sequence: <<>> when the key is      *)
(* absent, <<value>> when it is present.                                   *)
(***************************************************************************)
\* component["metadata"]["status"]: a class and a distributions list
StatusDict(class, distributions) == [class |-> class, distributions |-> distributions]

\* component["metadata"]: a display name and a status
MetadataDict(display_name, status) == [display_name |-> display_name, status |-> status]

\* {} as a status and as a metadata block
EmptyStatus == StatusDict(<<>>, <<>>)

EmptyMetadata == MetadataDict(<<>>, <<>>)

\* a component record of an inventory
Component(name, metadata) == [name |-> name, metadata |-> metadata, source_repo |-> <<>>]

\* a truth value of metadata that takes every component to have metadata
HasMetadata_Always(component) == TRUE

\* the truth value of component.get("metadata"): a missing key and {} are false
HasMetadata(component) ==
    component.metadata # <<>> /\ component.metadata[1] # EmptyMetadata

\* _is_experimental_component that finds no component experimental
is_experimental_component_Never(name, component_type) == FALSE

\* _is_experimental_component
is_experimental_component(name, component_type) ==
    \/ name = "xreceiver" /\ component_type = "receiver"
    \/ name = "xexporter" /\ component_type = "exporter"

\* _get_distributions that finds no distributions
get_distributions_None(component) == <<>>

\* _get_distributions
get_distributions(component) ==
    IF component.metadata = <<>> THEN <<>>
    ELSE IF component.metadata[1].status = <<>> THEN <<>>
    ELSE IF component.metadata[1].status[1].distributions = <<>> THEN <<>>
    ELSE component.metadata[1].status[1].distributions[1]

\* the distribution names and the component names, in the order sorted() puts them
DistAlphabet == <<"contrib", "core", "k8s">>

NameAlphabet == <<"kafkareceiver", "otlpreceiver", "xexporter", "xreceiver">>

\* sorted(set(...)) of distribution names
SortedDists(S) == SelectSeq(DistAlphabet, LAMBDA d : d \in S)

\* _merge_component_metadata that also relabels the entry with the other side
merge_component_metadata_Relabel(existing, new) ==
    LET all_dists == SortedDists(Range(get_distributions(existing))
                                    \cup Range(get_distributions(new)))
        adopted == IF HasMetadata(new) /\ ~HasMetadata(existing)
                   THEN new.metadata ELSE existing.metadata
        block == IF adopted = <<>> THEN EmptyMetadata ELSE adopted[1]
        status == IF block.status = <<>> THEN EmptyStatus ELSE block.status[1]
    IN [existing EXCEPT !.source_repo = <<"contrib">>, !.metadata =
           <<[block EXCEPT !.status = <<[status EXCEPT !.distributions = <<all_dists>>]>>]>>]

\* _merge_component_metadata: existing as the call leaves it
merge_component_metadata(existing, new) ==
    LET all_dists == SortedDists(Range(get_distributions(existing))
                                    \cup Range(get_distributions(new)))
        adopted == IF HasMetadata(new) /\ ~HasMetadata(existing)
                   THEN new.metadata ELSE existing.metadata
        block == IF adopted = <<>> THEN EmptyMetadata ELSE adopted[1]
        status == IF block.status = <<>> THEN EmptyStatus ELSE block.status[1]
    IN [existing EXCEPT !.metadata =
           <<[block EXCEPT !.status = <<[status EXCEPT !.distributions = <<all_dists>>]>>]>>]

\* the dict of an argument that an entry of component_map shares: the whole
\* metadata dict of the record it was copied from (dict.copy() is shallow),
\* the status dict of the record whose metadata it adopted (again a shallow
\* copy), or none
Shares(side, index, level) == [side |-> side, index |-> index, level |-> level]

SharesNothing == Shares("none", 0, "none")

\* an argument's component record after a write through a shared dict
WrittenThrough(component, entry) ==
    IF entry.shares.level = "metadata"
    THEN [component EXCEPT !.metadata = entry.component.metadata]
    ELSE [component EXCEPT !.metadata =
             <<[@[1] EXCEPT !.status = entry.component.metadata[1].status]>>]

\* _add_component_to_map for the index-th component of side's list; st holds
\* component_map and both argument lists as they are now
add_component_to_map(st, side, index, component_type) ==
    LET component == st[side][index]
        name == component.name
    IN IF is_experimental_component(name, component_type) THEN st
       ELSE IF name \in DOMAIN st.component_map
       THEN LET existing == st.component_map[name]
                merged == merge_component_metadata(existing.component, component)
                shares ==
                    IF HasMetadata(component) /\ ~HasMetadata(existing.component)
                    THEN IF component.metadata[1].status # <<>>
                         THEN Shares(side, index, "status") ELSE SharesNothing
                    ELSE IF existing.component.metadata = <<>> THEN SharesNothing
                    ELSE existing.shares
                entry == [component |-> merged, shares |-> shares]
                written == [st EXCEPT !.component_map = Put(@, name, entry)]
            IN IF shares.side = "none" THEN written
               ELSE [written EXCEPT ![shares.side][shares.index] = WrittenThrough(@, entry)]
       ELSE [st EXCEPT !.component_map =
                Put(@, name, [component |-> [component EXCEPT !.source_repo = <<side>>],
                              shares |-> IF component.metadata = <<>> THEN SharesNothing
                                         ELSE Shares(side, index, "metadata")])]

\* for component in <side's list>: _add_component_to_map(...), from index on
RECURSIVE add_components(_, _, _, _)
add_components(st, side, index, component_type) ==
    IF index > Len(st[side]) THEN st
    ELSE add_components(add_component_to_map(st, side, index, component_type),
                        side, index + 1, component_type)

\* the values of component_map in descending order of name
SortedByName_Descending(component_map) ==
    LET names == SelectSeq(NameAlphabet, LAMBDA n : n \in DOMAIN component_map)
    IN [i \in 1..Len(names) |-> component_map[names[Len(names) + 1 - i]].component]

\* sorted(component_map.values(), key=name)
SortedByName(component_map) ==
    LET names == SelectSeq(NameAlphabet, LAMBDA n : n \in DOMAIN component_map)
    IN [i \in 1..Len(names) |-> component_map[names[i]].component]

\* the body of merge_inventories' loop for one component type: the merged
\* list, and both argument lists as the loop leaves them
merge_type(core_comps, contrib_comps, component_type) ==
    LET st0 == [component_map |-> EmptyDict, core |-> core_comps, contrib |-> contrib_comps]
        st1 == add_components(st0, "core", 1, component_type)
        st2 == add_components(st1, "contrib", 1, component_type)
    IN [merged |-> SortedByName(st2.component_map), core |-> st2.core, contrib |-> st2.contrib]

\* merge_inventories: the merged components per type, and the components of
\* both arguments as the call leaves them
merge_inventories(core_inventory, contrib_inventory) ==
    LET all_types == DOMAIN core_inventory \cup DOMAIN contrib_inventory
        of(t) == merge_type(Get(core_inventory, t, <<>>), Get(contrib_inventory, t, <<>>), t)
    IN [merged |-> [t \in all_types |-> of(t).merged],
        core_inventory |-> [t \in DOMAIN core_inventory |-> of(t).core],
        contrib_inventory |-> [t \in DOMAIN contrib_inventory |-> of(t).contrib]]

\* component records of the receiver lists handed to merge_inventories: one
\* name with a full metadata block (distributions unsorted), with another
\* block (distributions repeated), without the metadata key and with
\* metadata {}; another name whose metadata has no status; the experimental name
OtlpCore ==
    Component("otlpreceiver",
              <<MetadataDict(<<"OTLP">>, <<StatusDict(<<"receiver">>, << <<"k8s", "core">> >>)>>)>>)

OtlpContrib ==
    Component("otlpreceiver",
              <<MetadataDict(<<"OTLP Receiver">>,
                             <<StatusDict(<<>>, << <<"contrib", "core", "contrib">> >>)>>)>>)

OtlpNoMetadata == Component("otlpreceiver", <<>>)

OtlpEmptyMetadata == Component("otlpreceiver", <<EmptyMetadata>>)

KafkaNoStatus == Component("kafkareceiver", <<MetadataDict(<<"Kafka">>, <<>>)>>)

XReceiver ==
    Component("xreceiver", <<MetadataDict(<<>>, <<StatusDict(<<>>, << <<"contrib">> >>)>>)>>)

MergeComponents ==
    {OtlpCore, OtlpContrib, OtlpNoMetadata, OtlpEmptyMetadata, KafkaNoStatus, XReceiver}

ComponentLists == UNION {[1..n -> MergeComponents] : n \in 0..MaxComponents}

\* the components of a core inventory: no type at all, or a receiver list
CoreInventories == {EmptyDict} \cup {[t \in {"receiver"} |-> l] : l \in ComponentLists}

\* the components of a contrib inventory: a receiver list, and exporters
\* one of which carries the receivers' experimental name
ContribInventories ==
    {[t \in {"receiver", "exporter"} |->
         IF t = "receiver" THEN l
         ELSE <<Component("xreceiver", <<>>), Component("xexporter", <<EmptyMetadata>>)>>] :
       l \in ComponentLists}

\* merge_inventories(core_inventory, contrib_inventory) is about to be called
MergeCall(core_inventory, contrib_inventory) ==
    [op |-> "merge_inventories", done |-> FALSE,
     core_inventory |-> core_inventory, contrib_inventory |-> contrib_inventory,
     value |-> EmptyDict, core_after |-> core_inventory, contrib_after |-> contrib_inventory]

InitMerge ==
    /\ InitTools
    /\ call \in {MergeCall(c, k) : c \in CoreInventories, k \in ContribInventories}

\* merge_inventories runs and returns
MergeInventories ==
    /\ call.op = "merge_inventories"
    /\ ~call.done
    /\ LET r == merge_inventories(call.core_inventory, call.contrib_inventory)
       IN call' = [call EXCEPT !.done = TRUE, !.value = r.merged,
                               !.core_after = r.core_inventory,
                               !.contrib_after = r.contrib_inventory]
    /\ UNCHANGED collectorVars
    /\ UNCHANGED dbVars

NextMerge == MergeInventories

SpecMerge == InitMerge /\ [][NextMerge]_vars

(***************************************************************************)
(* collector_watcher.version: the Version dataclass                        *)
(***************************************************************************)
\* Version.__str__: "v0.112.0" or "v0.113.0-SNAPSHOT", as tokens
Version_str(v) == <<TokV>> \o VersionStr(v)

\* Version.from_string that never sees the -SNAPSHOT suffix
from_string_NoSnapshot(version_str) ==
    LET stripped == LStripV(version_str)
        numbers == SelectSeq(stripped, LAMBDA tok : tok # TokSnapshot)
    IN IF Len(numbers) = 3 /\ \A i \in 1..3 : numbers[i].kind = "num"
       THEN {Version(numbers[1].n, numbers[2].n, numbers[3].n, FALSE)}
       ELSE {}

\* Version.from_string: the set holding the parsed version, empty on ValueError
from_string(version_str) ==
    LET stripped == LStripV(version_str)
        is_snapshot == stripped # <<>> /\ stripped[Len(stripped)] = TokSnapshot
        numbers == IF is_snapshot
                   THEN SelectSeq(stripped, LAMBDA tok : tok # TokSnapshot)
                   ELSE stripped
    IN IF Len(numbers) = 3 /\ \A i \in 1..3 : numbers[i].kind = "num"
       THEN {Version(numbers[1].n, numbers[2].n, numbers[3].n, is_snapshot)}
       ELSE {}

\* Version.__eq__
VersionEQ(a, b) ==
    /\ a.major = b.major
    /\ a.minor = b.minor
    /\ a.patch = b.patch
    /\ a.prerelease = b.prerelease

\* Version.__le__
VersionLE(a, b) == VersionEQ(a, b) \/ VersionLT(a, b)

\* Version.__gt__
VersionGT(a, b) == ~VersionLE(a, b)

\* Version.__ge__
VersionGE(a, b) == ~VersionLT(a, b)

\* the versions compared, and their texts
ComparedVersions ==
    {Version(major, minor, patch, pre) :
        major \in 0..MaxMajor, minor \in {112, 113}, patch \in 0..MaxPatch, pre \in BOOLEAN}

VersionTexts == {Version_str(v) : v \in ComparedVersions}

\* the five comparisons of one pair
Comparisons(a, b) ==
    [lt |-> VersionLT(a, b), le |-> VersionLE(a, b), gt |-> VersionGT(a, b),
     ge |-> VersionGE(a, b), eq |-> VersionEQ(a, b)]

\* three version texts about to be parsed and compared with each other
CompareCall(texts) ==
    [op |-> "compare", done |-> FALSE, texts |-> texts, versions |-> <<>>,
     value |-> <<>>]

InitVersion ==
    /\ InitTools
    /\ \E a, b, c \in VersionTexts : call = CompareCall(<<a, b, c>>)

\* Version.from_string on each text, then every comparison of every pair
CompareVersions ==
    /\ call.op = "compare"
    /\ ~call.done
    /\ \A i \in 1..3 : from_string(call.texts[i]) # {}
    /\ LET versions == [i \in 1..3 |-> CHOOSE v \in from_string(call.texts[i]) : TRUE]
       IN call' = [call EXCEPT !.done = TRUE, !.versions = versions,
                               !.value = [i \in 1..3 |-> [j \in 1..3 |->
                                              Comparisons(versions[i], versions[j])]]]
    /\ UNCHANGED collectorVars
    /\ UNCHANGED dbVars

NextVersion == CompareVersions

SpecVersion == InitVersion /\ [][NextVersion]_vars

(***************************************************************************)
(* content_hashing: content_hash called on its own                         *)
(***************************************************************************)
\* the orders the entries of a dict can be inserted in
Orders(entries) ==
    {order \in [1..Cardinality(entries) -> entries] :
        \A i, j \in 1..Cardinality(entries) : order[i] = order[j] => i = j}

\* dependency dicts, as in test_hash_complex_structure: one content in both
\* key orders, and another content
Dependencies ==
    UNION {Orders({KV("name", Str("dep1")), KV("version", Str(version))}) :
              version \in {"1.0", "2.0"}}

\* documents with a dict under a key and a dict inside a list under another
\* key, their three keys in any order
HashedDocuments ==
    UNION {Orders({KV("name", Str("akka-http")),
                   KV("description", Dict(nested)),
                   KV("version", List(<<Str("http"), Dict(listed)>>))}) :
              nested \in Dependencies, listed \in Dependencies}

\* the values handed to content_hash: documents, lists of dicts, a string
HashedValues ==
    {Dict(entries) : entries \in HashedDocuments}
        \cup {List(<<Dict(entries)>>) : entries \in Dependencies}
        \cup {Str("http")}

\* two values about to be hashed
HashCall(v1, v2) ==
    [op |-> "content_hash", done |-> FALSE, v1 |-> v1, v2 |-> v2, value |-> <<>>]

InitHash ==
    /\ InitTools
    /\ \E v1, v2 \in HashedValues : call = HashCall(v1, v2)

\* content_hash(v1) and content_hash(v2)
HashValues ==
    /\ call.op = "content_hash"
    /\ ~call.done
    /\ call' = [call EXCEPT !.done = TRUE,
                            !.value = <<content_hash(call.v1), content_hash(call.v2)>>]
    /\ UNCHANGED collectorVars
    /\ UNCHANGED dbVars

NextHash == HashValues

SpecHash == InitHash /\ [][NextHash]_vars

(***************************************************************************)
(* collector_watcher.metadata_parser: MetadataParser                       *)
(***************************************************************************)
\* None
NoneValue == [t |-> "none", s |-> "", items |-> <<>>]

\* the strings the parser sorts (keys of mappings, elements of lists), in
\* the order sorted() puts them
ParserAlphabet ==
    <<"a_attr", "alice", "beta", "bob", "contrib", "core", "cpu.time", "darwin",
      "direction", "linux", "logs", "metrics", "received", "sent", "stable",
      "state", "traces", "z_attr">>

\* the entries of a mapping in the order of sorted(mapping.keys())
RECURSIVE SortedKeysFrom(_, _)
SortedKeysFrom(entries, i) ==
    IF i > Len(ParserAlphabet) THEN <<>>
    ELSE SelectSeq(entries, LAMBDA e : e.k = ParserAlphabet[i])
            \o SortedKeysFrom(entries, i + 1)

\* sorted(items) for a list of strings
RECURSIVE SortedStringsFrom(_, _)
SortedStringsFrom(items, i) ==
    IF i > Len(ParserAlphabet) THEN <<>>
    ELSE SelectSeq(items, LAMBDA x : x = Str(ParserAlphabet[i]))
            \o SortedStringsFrom(items, i + 1)

\* sorted(x) if isinstance(x, list) else x
SortedIfList(x) == IF x.t = "list" THEN List(SortedStringsFrom(x.items, 1)) ELSE x

\* if key in raw: parsed[key] = raw[key]
CopyIfPresent(raw, key) == IF HasKey(raw, key) THEN <<KV(key, Item(raw, key))>> ELSE <<>>

\* if key in raw: parsed[key] = sorted(raw[key]) if it is a list else raw[key]
SortIfPresent(raw, key) ==
    IF HasKey(raw, key) THEN <<KV(key, SortedIfList(Item(raw, key)))>> ELSE <<>>

\* _parse_status
parse_status(status) ==
    Dict(CopyIfPresent(status, "class")
         \o (IF HasKey(status, "stability")
             THEN LET levels == SortedKeysFrom(Item(status, "stability").items, 1)
                  IN <<KV("stability",
                          Dict([i \in 1..Len(levels) |->
                                   KV(levels[i].k, SortedIfList(levels[i].val))]))>>
             ELSE <<>>)
         \o SortIfPresent(status, "distributions")
         \o CopyIfPresent(status, "codeowners")
         \o SortIfPresent(status, "unsupported_platforms"))

\* _parse_attributes
parse_attributes(attributes) ==
    LET names == SortedKeysFrom(attributes.items, 1)
        parsed_attr(attr) ==
            IF IsDict(attr)
            THEN Dict(CopyIfPresent(attr, "description") \o CopyIfPresent(attr, "type")
                      \o CopyIfPresent(attr, "name_override") \o SortIfPresent(attr, "enum"))
            ELSE attr
    IN Dict([i \in 1..Len(names) |-> KV(names[i].k, parsed_attr(names[i].val))])

\* _parse_metrics
parse_metrics(metrics) ==
    LET names == SortedKeysFrom(metrics.items, 1)
        parsed_metric(metric) ==
            IF IsDict(metric)
            THEN Dict(CopyIfPresent(metric, "description") \o CopyIfPresent(metric, "unit")
                      \o CopyIfPresent(metric, "enabled")
                      \o CopyIfPresent(metric, "sum") \o CopyIfPresent(metric, "gauge")
                      \o CopyIfPresent(metric, "histogram")
                      \o SortIfPresent(metric, "attributes")
                      \o CopyIfPresent(metric, "stability"))
            ELSE metric
    IN Dict([i \in 1..Len(names) |-> KV(names[i].k, parsed_metric(names[i].val))])

\* the metadata.yaml of a component directory: absent, empty, text that is
\* no YAML, bytes that are no text, or the text of a document (a mapping)
MetadataFile(kind, document) == [kind |-> kind, document |-> document]

\* has_metadata
has_metadata(file) == file.kind # "absent"

\* what open() and yaml.safe_load() do: raise, or return the document
Loaded(raises, value) == [raises |-> raises, value |-> value]

\* yaml.safe_load that returns what it read of a text that is no YAML
safe_load_Partial(file) ==
    CASE file.kind = "undecodable" -> Loaded("UnicodeDecodeError", NoneValue)
      [] file.kind = "empty" -> Loaded("", NoneValue)
      [] file.kind = "malformed" -> Loaded("", Dict(<<KV("type", Str("test"))>>))
      [] OTHER -> Loaded("", file.document)

\* open(self.metadata_path) and yaml.safe_load(f)
safe_load(file) ==
    CASE file.kind = "undecodable" -> Loaded("UnicodeDecodeError", NoneValue)
      [] file.kind = "malformed" -> Loaded("YAMLError", NoneValue)
      [] file.kind = "empty" -> Loaded("", NoneValue)
      [] OTHER -> Loaded("", file.document)

\* the outcome of a call: an exception that reached the caller, or a value
Raised(exception) == [raised |-> exception, value |-> NoneValue]

Returned(value) == [raised |-> "", value |-> value]

\* MetadataParser.parse, for a file that holds a mapping if it holds YAML
parse(file) ==
    IF ~has_metadata(file) THEN Returned(NoneValue)
    ELSE LET loaded == safe_load(file)
             raw_metadata == loaded.value
         IN IF loaded.raises = "YAMLError" THEN Returned(NoneValue)
            ELSE IF loaded.raises # "" THEN Returned(NoneValue)
            ELSE IF raw_metadata = NoneValue \/ raw_metadata.items = <<>>
            THEN Returned(NoneValue)
            ELSE Returned(Dict(
                    CopyIfPresent(raw_metadata, "type")
                    \o CopyIfPresent(raw_metadata, "display_name")
                    \o CopyIfPresent(raw_metadata, "description")
                    \o (IF HasKey(raw_metadata, "status")
                        THEN <<KV("status", parse_status(Item(raw_metadata, "status")))>>
                        ELSE <<>>)
                    \o (IF HasKey(raw_metadata, "attributes")
                        THEN <<KV("attributes",
                                  parse_attributes(Item(raw_metadata, "attributes")))>>
                        ELSE <<>>)
                    \o (IF HasKey(raw_metadata, "metrics")
                        THEN <<KV("metrics", parse_metrics(Item(raw_metadata, "metrics")))>>
                        ELSE <<>>)
                    \o (IF HasKey(raw_metadata, "resource_attributes")
                        THEN <<KV("resource_attributes",
                                  parse_attributes(Item(raw_metadata, "resource_attributes")))>>
                        ELSE <<>>)))

\* the orders a sequence can be written in
Reordered(seq) ==
    {[i \in 1..Len(seq) |-> seq[order[i]]] :
        order \in {f \in [1..Len(seq) -> 1..Len(seq)] :
                      \A i, j \in 1..Len(seq) : f[i] = f[j] => i = j}}

\* the values that differ from v only in the order of mapping keys and of
\* list elements, at any depth
RECURSIVE Reorderings(_)
Reorderings(v) ==
    IF v.items = <<>> THEN {v}
    ELSE LET n == Len(v.items)
             child(i) == IF IsDict(v) THEN {KV(v.items[i].k, val) :
                                              val \in Reorderings(v.items[i].val)}
                         ELSE Reorderings(v.items[i])
             RECURSIVE rewritten(_)
             rewritten(i) == IF i > n THEN {<<>>}
                             ELSE {<<c>> \o rest : c \in child(i), rest \in rewritten(i + 1)}
         IN {[v EXCEPT !.items = items] :
                items \in UNION {Reordered(r) : r \in rewritten(1)}}

\* documents as in test_deterministic_output and test_parse_complete_metadata
DocStability ==
    Dict(<<KV("type", Str("test")),
           KV("status", Dict(<<KV("class", Str("receiver")),
                               KV("stability",
                                  Dict(<<KV("stable", List(<<Str("traces"), Str("metrics")>>)),
                                         KV("beta", List(<<Str("logs")>>))>>))>>))>>)

DocDistributions ==
    Dict(<<KV("display_name", Str("Active Directory DS Receiver")),
           KV("status", Dict(<<KV("distributions", List(<<Str("core"), Str("contrib")>>)),
                               KV("unsupported_platforms",
                                  List(<<Str("linux"), Str("darwin")>>))>>))>>)

DocCodeowners ==
    Dict(<<KV("type", Str("test")),
           KV("status", Dict(<<KV("class", Str("receiver")),
                               KV("codeowners",
                                  Dict(<<KV("active", List(<<Str("bob"), Str("alice")>>)),
                                         KV("seeking_new", Str("true"))>>))>>))>>)

DocAttributes ==
    Dict(<<KV("attributes",
              Dict(<<KV("z_attr", Dict(<<KV("type", Str("string")),
                                         KV("enum", List(<<Str("sent"), Str("received")>>))>>)),
                     KV("a_attr", Dict(<<KV("type", Str("int"))>>))>>))>>)

DocMetrics ==
    Dict(<<KV("metrics",
              Dict(<<KV("cpu.time",
                        Dict(<<KV("unit", Str("By")),
                               KV("sum", Dict(<<KV("monotonic", Str("true")),
                                                KV("value_type", Str("int"))>>)),
                               KV("attributes",
                                  List(<<Str("state"), Str("direction")>>))>>))>>))>>)

\* documents as in test_sanitize_description_whitespace_normalization and
\* test_sanitize_descriptions_in_attributes_and_metrics: descriptions written
\* as YAML block scalars, which yaml.safe_load returns with their line breaks
DocDescription ==
    Dict(<<KV("type", Str("test")),
           KV("description", Str("converts metrics from delta temporality to\n\ncumulative\n"))>>)

DocNestedDescriptions ==
    Dict(<<KV("type", Str("test")),
           KV("attributes",
              Dict(<<KV("a_attr", Dict(<<KV("description",
                                           Str("Multi-line attribute description\nwith line breaks.\n")),
                                        KV("type", Str("string"))>>))>>)),
           KV("metrics",
              Dict(<<KV("cpu.time", Dict(<<KV("description",
                                             Str("total number of datapoints processed.\nif processing failed\n")),
                                          KV("enabled", Str("true"))>>))>>)),
           KV("resource_attributes",
              Dict(<<KV("z_attr", Dict(<<KV("description",
                                           Str("The name of the service\nrunning the collector.\n")),
                                        KV("type", Str("string"))>>))>>))>>)

\* the texts above: the strings of the model that hold a line break
TextsWithNewline ==
    {"converts metrics from delta temporality to\n\ncumulative\n",
     "Multi-line attribute description\nwith line breaks.\n",
     "total number of datapoints processed.\nif processing failed\n",
     "The name of the service\nrunning the collector.\n"}

\* the metadata files a component directory can hold
MetadataFiles ==
    {MetadataFile(kind, NoneValue) : kind \in {"absent", "empty", "malformed", "undecodable"}}
        \cup {MetadataFile("document", document) :
                 document \in {Dict(<<>>), DocDescription, DocNestedDescriptions}
                    \cup UNION {Reorderings(base) :
                                   base \in {DocStability, DocDistributions, DocCodeowners,
                                             DocAttributes, DocMetrics}}}

\* the metadata files of two component directories, about to be parsed
ParseCall(first, second) ==
    [op |-> "parse", done |-> FALSE, files |-> <<first, second>>, value |-> <<>>]

InitParser ==
    /\ InitTools
    /\ \E first, second \in MetadataFiles : call = ParseCall(first, second)

\* MetadataParser(dir).parse() for both directories
ParseMetadata ==
    /\ call.op = "parse"
    /\ ~call.done
    /\ call' = [call EXCEPT !.done = TRUE,
                            !.value = <<parse(call.files[1]), parse(call.files[2])>>]
    /\ UNCHANGED collectorVars
    /\ UNCHANGED dbVars

NextParser == ParseMetadata

SpecParser == InitParser /\ [][NextParser]_vars

(***************************************************************************)
(* collector_watcher.component_scanner: ComponentScanner                   *)
(***************************************************************************)
\* a directory name as the pieces startswith / endswith / == look at:
\* ".hidden" is <<".", "hidden">>, "kafkatest" is <<"kafka", "test">>
EXCLUDED_DIRECTORIES ==
    {<<"extensionauth">>, <<"extensioncapabilities">>, <<"extensionmiddleware">>,
     <<"opampcustommessages">>}

NESTED_COMPONENT_DIRS == {<<"encoding">>, <<"observer">>, <<"storage">>}

\* the names of the model in the order sorted(iterdir()) lists them
DirAlphabet ==
    << <<".", "hidden">>, <<"README.md">>, <<"_", "gen">>, <<"auth", "helper">>,
       <<"extensionauth">>, <<"internal">>, <<"kafka", "test">>, <<"otlp">>,
       <<"storage">>, <<"testdata">> >>

\* an entry of a directory: its name, whether it is a directory, whether it
\* holds go.mod, whether it holds a *.go file, its metadata.yaml, and the
\* entries inside it
Entry(name, is_dir, go_mod, go_files, metadata, children) ==
    [name |-> name, is_dir |-> is_dir, go_mod |-> go_mod, go_files |-> go_files,
     metadata |-> metadata, children |-> children]

\* sorted(directory.iterdir())
SortedEntries(entries) ==
    LET names == SelectSeq(DirAlphabet, LAMBDA n : \E e \in entries : e.name = n)
    IN [i \in 1..Len(names) |-> CHOOSE e \in entries : e.name = names[i]]

\* _is_valid_component_name that takes every name
is_valid_component_name_Any(path) == TRUE

\* _is_valid_component_name
is_valid_component_name(path) ==
    IF Head(path.name) = "." \/ Head(path.name) = "_" THEN FALSE
    ELSE IF path.name \in {<<"internal">>, <<"testdata">>} THEN FALSE
    ELSE IF path.name[Len(path.name)] = "test" \/ path.name[Len(path.name)] = "helper"
    THEN FALSE
    ELSE TRUE

\* _has_go_code
has_go_code(path) == path.go_mod \/ path.go_files

\* _is_nested_component_directory
is_nested_component_directory(path) == is_valid_component_name(path) /\ has_go_code(path)

\* _is_component_directory
is_component_directory(path) ==
    IF ~is_valid_component_name(path) THEN FALSE
    ELSE IF path.name \in EXCLUDED_DIRECTORIES THEN FALSE
    ELSE IF path.name \in NESTED_COMPONENT_DIRS THEN FALSE
    ELSE has_go_code(path)

\* the truth value of a parsed metadata: None and {} are false
Truthy(value) == value # NoneValue /\ value.items # <<>>

\* _extract_component_info: name, and subtype, metadata, has_metadata when set
extract_component_info(component_path, component_type, subtype) ==
    LET parsed_metadata == parse(component_path.metadata).value
        with_metadata == has_metadata(component_path.metadata) /\ Truthy(parsed_metadata)
    IN [name |-> component_path.name,
        subtype |-> subtype,
        metadata |-> IF with_metadata THEN <<parsed_metadata>> ELSE <<>>,
        has_metadata |-> IF with_metadata THEN <<>> ELSE <<FALSE>>]

\* _scan_nested_components
scan_nested_components(nested_dir, component_type, subtype) ==
    LET items == SelectSeq(SortedEntries(nested_dir.children),
                           LAMBDA item : item.is_dir /\ is_nested_component_directory(item))
    IN [i \in 1..Len(items) |-> extract_component_info(items[i], component_type, <<subtype>>)]

\* scan_component_type, from the i-th entry of the sorted listing on
RECURSIVE scan_items(_, _, _)
scan_items(items, i, component_type) ==
    IF i > Len(items) THEN <<>>
    ELSE LET item == items[i]
             found == IF ~item.is_dir THEN <<>>
                      ELSE IF item.name \in NESTED_COMPONENT_DIRS
                      THEN scan_nested_components(item, component_type, item.name)
                      ELSE IF is_component_directory(item)
                      THEN <<extract_component_info(item, component_type, <<>>)>>
                      ELSE <<>>
         IN found \o scan_items(items, i + 1, component_type)

\* scan_component_type; repo maps the component type directories that exist
\* to their entries
scan_component_type(repo, component_type) ==
    IF component_type \notin DOMAIN repo THEN <<>>
    ELSE scan_items(SortedEntries(repo[component_type]), 1, component_type)

\* scan_all_components
scan_all_components(repo) ==
    [component_type \in ComponentTypeSet |-> scan_component_type(repo, component_type)]

\* metadata.yaml files of component directories: none, one that is no YAML,
\* one with a type, one with none of the keys the parser copies
ScannedMetadata ==
    {MetadataFile("absent", NoneValue), MetadataFile("malformed", NoneValue),
     MetadataFile("document", Dict(<<KV("type", Str("otlp"))>>)),
     MetadataFile("document", Dict(<<KV("name", Str("otlp"))>>))}

\* directories without entries of their own
LeafDirs ==
    {Entry(name, TRUE, go_mod, go_files, metadata, {}) :
        name \in Range(DirAlphabet) \ {<<"README.md">>},
        go_mod \in BOOLEAN, go_files \in {FALSE}, metadata \in ScannedMetadata}
    \cup {Entry(name, TRUE, FALSE, TRUE, MetadataFile("absent", NoneValue), {}) :
             name \in Range(DirAlphabet) \ {<<"README.md">>}}

\* what a directory named storage can hold
NestedDirs ==
    {Entry(<<"internal">>, TRUE, TRUE, FALSE, MetadataFile("absent", NoneValue), {}),
     Entry(<<"kafka", "test">>, TRUE, FALSE, TRUE, MetadataFile("absent", NoneValue), {}),
     Entry(<<"otlp">>, TRUE, TRUE, FALSE,
           MetadataFile("document", Dict(<<KV("type", Str("otlp"))>>)), {}),
     Entry(<<"otlp">>, TRUE, FALSE, FALSE, MetadataFile("absent", NoneValue), {}),
     Entry(<<"storage">>, TRUE, TRUE, TRUE, MetadataFile("malformed", NoneValue), {})}

\* directories named storage: with up to two entries, with Go code or without
ContainerDirs ==
    {Entry(<<"storage">>, TRUE, FALSE, go_files, MetadataFile("absent", NoneValue), children) :
        go_files \in BOOLEAN,
        children \in {c \in SUBSET NestedDirs :
                         /\ Cardinality(c) <= 2
                         /\ \A a, b \in c : a.name = b.name => a = b}}

\* what a component type directory can hold: a directory, or a plain file
TypeDirEntries ==
    LeafDirs \cup ContainerDirs
        \cup {Entry(<<"README.md">>, FALSE, FALSE, FALSE, MetadataFile("absent", NoneValue), {})}

\* repositories: an extension directory and a receiver directory, each
\* absent or holding one entry
Repos ==
    {[component_type \in types |-> IF component_type = "extension" THEN {e} ELSE {r}] :
        types \in {{"extension", "receiver"}}, e \in TypeDirEntries, r \in TypeDirEntries}
    \cup {[component_type \in {"receiver"} |-> {r}] : r \in ContainerDirs}

\* a repository about to be scanned
ScanCall(repo) == [op |-> "scan_all_components", done |-> FALSE, repo |-> repo, value |-> <<>>]

InitScanner ==
    /\ InitTools
    /\ \E repo \in Repos : call = ScanCall(repo)

\* ComponentScanner(repo_path).scan_all_components()
ScanAllComponents ==
    /\ call.op = "scan_all_components"
    /\ ~call.done
    /\ call' = [call EXCEPT !.done = TRUE, !.value = scan_all_components(call.repo)]
    /\ UNCHANGED collectorVars
    /\ UNCHANGED dbVars

NextScanner == ScanAllComponents

SpecScanner == InitScanner /\ [][NextScanner]_vars

(***************************************************************************)
(* java_instrumentation_watcher.instrumentation_parser                     *)
(***************************************************************************)
\* ParserFactory._parsers: the file formats, ascending (a float is written
\* as its text)
SupportedFormats == <<"0.1", "0.2">>

\* str.strip() on the strings of the documents
Strip(text) == IF text = "  Test  " THEN "Test" ELSE text

\* InstrumentationParser._clean_strings
RECURSIVE clean_strings(_)
clean_strings(data) ==
    CASE data.t = "str" -> Str(Strip(data.s))
      [] data.t = "dict" ->
            Dict([i \in 1..Len(data.items) |->
                     KV(data.items[i].k, clean_strings(data.items[i].val))])
      [] data.t = "list" ->
            List([i \in 1..Len(data.items) |-> clean_strings(data.items[i])])
      [] OTHER -> data

\* d[key] = value on a dict: in place when the key is there, at the end otherwise
SetItem(d, key, value) ==
    IF HasKey(d, key)
    THEN Dict([i \in 1..Len(d.items) |->
                  IF d.items[i].k = key THEN KV(key, value) ELSE d.items[i]])
    ELSE Dict(Append(d.items, KV(key, value)))

\* the libraries of the groups from the i-th on, each dict tagged with its group
RECURSIVE flattened_from(_, _)
flattened_from(groups, i) ==
    IF i > Len(groups) THEN <<>>
    ELSE LET group_name == groups[i].k
             libraries == groups[i].val
             tagged == IF libraries.t # "list" THEN <<>>
                       ELSE [j \in 1..Len(libraries.items) |->
                                IF IsDict(libraries.items[j])
                                THEN SetItem(libraries.items[j], "tags",
                                             List(<<Str(group_name)>>))
                                ELSE libraries.items[j]]
         IN tagged \o flattened_from(groups, i + 1)

\* ParserV01._flatten_libraries
flatten_libraries(data) ==
    IF ~IsDict(data) \/ ~HasKey(data, "libraries") \/ ~IsDict(Item(data, "libraries"))
    THEN data
    ELSE SetItem(data, "libraries", List(flattened_from(Item(data, "libraries").items, 1)))

\* a YAML text: its kind (text that is no YAML, an empty text, a document)
\* and the value yaml.safe_load returns for it
YamlContent(kind, document) == [kind |-> kind, document |-> document]

\* the outcome of parse_instrumentation_yaml: the exception that left it, the
\* file format of the parser that was created, the value returned
ParseOutcome(raised, parser, value) == [raised |-> raised, parser |-> parser, value |-> value]

\* ParserV01.parse / ParserV02.parse, by the parser of file format parser
parser_parse(parser, yaml_content) ==
    IF yaml_content.kind = "malformed" THEN ParseOutcome("ValueError", parser, NoneValue)
    ELSE LET loaded == yaml_content.document
             data == IF loaded = NoneValue \/ (loaded.t # "str" /\ loaded.items = <<>>)
                     THEN Dict(<<>>) ELSE loaded
         IN ParseOutcome("", parser, flatten_libraries(clean_strings(data)))

\* ParserFactory.get_parser: the set holding the parser's file format, empty
\* when it raises ValueError
get_parser(file_format) ==
    IF file_format \in Range(SupportedFormats) THEN {file_format} ELSE {}

\* ParserFactory.get_default_parser
get_default_parser == get_parser(SupportedFormats[Len(SupportedFormats)])

\* parse_instrumentation_yaml; file_format is <<>> for None
parse_instrumentation_yaml(yaml_content, file_format) ==
    LET data == yaml_content.document
        no_get == yaml_content.kind = "document" /\ ~IsDict(data) /\ data.items # <<>>
        detected == IF file_format # <<>> THEN file_format
                    ELSE IF yaml_content.kind # "document" THEN <<>>
                    ELSE IF data.items = <<>> THEN <<>>
                    ELSE IF HasKey(data, "file_format") /\ Item(data, "file_format") # NoneValue
                    THEN <<Item(data, "file_format").s>>
                    ELSE <<>>
    IN IF file_format = <<>> /\ no_get THEN ParseOutcome("AttributeError", "", NoneValue)
       ELSE LET parsers == IF detected # <<>> THEN get_parser(detected[1])
                           ELSE get_default_parser
            IN IF parsers = {} THEN ParseOutcome("ValueError", "", NoneValue)
               ELSE parser_parse(CHOOSE parser \in parsers : TRUE, yaml_content)

\* library groups of the documents, as in the tests
LibraryGroups ==
    {Dict(<<>>),
     Dict(<<KV("test", List(<<Dict(<<KV("name", Str("  Test  "))>>)>>))>>),
     Dict(<<KV("activej", List(<<Dict(<<KV("name", Str("activej-http"))>>)>>)),
            KV("akka", List(<<Dict(<<KV("name", Str("akka-http")),
                                      KV("tags", List(<<Str("old")>>))>>)>>))>>),
     List(<<Str("akka-http")>>)}

\* the texts handed to parse_instrumentation_yaml: no YAML, empty, mappings
\* with a file_format tag (supported, unsupported, null) or without one, with
\* libraries or without, and a document that is a list
YamlContents ==
    {YamlContent("malformed", NoneValue), YamlContent("empty", NoneValue),
     YamlContent("document", Dict(<<>>)),
     YamlContent("document", List(<<Str("akka-http")>>))}
    \cup {YamlContent("document", Dict(tag \o libraries)) :
             tag \in {<<>>, <<KV("file_format", NoneValue)>>}
                        \cup {<<KV("file_format", Str(f))>> : f \in {"0.1", "0.2", "999.0"}},
             libraries \in {<<KV("libraries", groups)>> : groups \in LibraryGroups}}
    \cup {YamlContent("document", Dict(<<KV("file_format", Str(f))>>)) :
             f \in {"0.1", "0.2", "999.0"}}

\* the file_format argument: None or a number
FormatArguments == {<<>>} \cup {<<f>> : f \in {"0.1", "0.2", "999.0"}}

InstrumentationCall(yaml_content, file_format) ==
    [op |-> "parse_instrumentation_yaml", done |-> FALSE, yaml_content |-> yaml_content,
     file_format |-> file_format, value |-> <<>>]

InitInstrumentation ==
    /\ InitTools
    /\ \E yaml_content \in YamlContents, file_format \in FormatArguments :
          call = InstrumentationCall(yaml_content, file_format)

\* parse_instrumentation_yaml(yaml_content, file_format)
ParseInstrumentationYaml ==
    /\ call.op = "parse_instrumentation_yaml"
    /\ ~call.done
    /\ call' = [call EXCEPT !.done = TRUE,
                            !.value = parse_instrumentation_yaml(call.yaml_content,
                                                                 call.file_format)]
    /\ UNCHANGED collectorVars
    /\ UNCHANGED dbVars

NextInstrumentation == ParseInstrumentationYaml

SpecInstrumentation == InitInstrumentation /\ [][NextInstrumentation]_vars

(***************************************************************************)
(* DocMarkerUpdater (documentation-sync): a Markdown text is a sequence of *)
(* pieces, each a marker comment or a run of other text.                   *)
(***************************************************************************)

\* the longest text handed to update_section, in pieces
MaxPieces == 4

\* a piece of text: kind is "text" (id is the text itself), "begin" / "end"
\* (a marker comment of marker id `id` without SOURCE) or "begin_source" /
\* "end_source" (the marker comment with SOURCE)
Piece(kind, id) == [kind |-> kind, id |-> id]

Text(s) == <<Piece("text", s)>>

\* DocMarkerUpdater.get_marker_pattern
get_marker_pattern(marker_id) ==
    <<Piece("begin_source", marker_id), Piece("end_source", marker_id)>>

\* begin_pattern of DocMarkerUpdater._build_marker_regex
begin_pattern(piece, marker_id) ==
    piece.kind \in {"begin", "begin_source"} /\ piece.id = marker_id

\* end_pattern of DocMarkerUpdater._build_marker_regex
end_pattern(piece, marker_id) ==
    piece.kind \in {"end", "end_source"} /\ piece.id = marker_id

\* the leftmost match of the compiled pattern at or after position from:
\* <<i, j>> with the begin marker at i and the nearest end marker at j, or <<>>
build_marker_regex(content, marker_id, from) ==
    LET begins == {i \in from..Len(content) :
                      /\ begin_pattern(content[i], marker_id)
                      /\ \E j \in (i + 1)..Len(content) : end_pattern(content[j], marker_id)}
    IN IF begins = {} THEN <<>>
       ELSE LET i == CHOOSE b \in begins : \A other \in begins : b <= other
                j == CHOOSE e \in (i + 1)..Len(content) :
                        /\ end_pattern(content[e], marker_id)
                        /\ \A other \in (i + 1)..(e - 1) : ~end_pattern(content[other], marker_id)
            IN <<i, j>>

\* the replacement of re.sub read as a template: a backslash with n is a
\* line break, two backslashes are one, a backslash before a character that is
\* no letter stays; a group number, another letter or nothing after the
\* backslash raises re.error, given as <<Piece("error", "")>>
RECURSIVE expand_template(_)
expand_template(template) ==
    IF template = <<>> THEN <<>>
    ELSE IF Head(template) # Piece("text", "\\")
    THEN LET rest == expand_template(Tail(template))
         IN IF rest = <<Piece("error", "")>> THEN rest ELSE <<Head(template)>> \o rest
    ELSE IF Len(template) = 1 THEN <<Piece("error", "")>>
    ELSE LET escaped == template[2]
             rest == expand_template(SubSeq(template, 3, Len(template)))
         IN IF rest = <<Piece("error", "")>> THEN rest
            ELSE IF escaped = Piece("text", "n") THEN Text("\n") \o rest
            ELSE IF escaped = Piece("text", "\\") THEN Text("\\") \o rest
            ELSE IF escaped = Piece("text", "|") THEN Text("\\") \o Text("|") \o rest
            ELSE <<Piece("error", "")>>

\* every match of the pattern at or after from replaced by the text expanded
RECURSIVE replace_matches(_, _, _, _)
replace_matches(content, marker_id, expanded, from) ==
    LET found == build_marker_regex(content, marker_id, from)
    IN IF found = <<>> THEN SubSeq(content, from, Len(content))
       ELSE SubSeq(content, from, found[1] - 1) \o expanded
            \o replace_matches(content, marker_id, expanded, found[2] + 1)

\* the outcome of update_section: the exception that left it, or the pair
\* (updated_content, was_updated)
UpdateOutcome(raised, content, was_updated) ==
    [raised |-> raised, content |-> content, was_updated |-> was_updated]

\* DocMarkerUpdater.update_section
update_section(content, marker_id, new_content) ==
    LET markers == get_marker_pattern(marker_id)
        replacement == <<markers[1]>> \o Text("\n") \o new_content \o Text("\n")
                       \o <<markers[2]>>
        expanded == expand_template(replacement)
    IN IF build_marker_regex(content, marker_id, 1) = <<>>
       THEN UpdateOutcome("", content, FALSE)
       ELSE IF expanded = <<Piece("error", "")>> THEN UpdateOutcome("re.error", <<>>, FALSE)
       ELSE UpdateOutcome("", replace_matches(content, marker_id, expanded, 1), TRUE)

\* the pieces of the documents: text, and the markers of two sections
DocPieces ==
    {Piece("text", "Header"), Piece("begin", "section1"), Piece("begin_source", "section1"),
     Piece("end", "section1"), Piece("begin", "section2"), Piece("end", "section2")}

RECURSIVE DocsOfLength(_)
DocsOfLength(n) ==
    IF n = 0 THEN {<<>>}
    ELSE {Append(doc, piece) : doc \in DocsOfLength(n - 1), piece \in DocPieces}

MarkedDocs == UNION {DocsOfLength(n) : n \in 0..MaxPieces}

\* the new contents: a table row, and texts with a backslash in them
NewContents ==
    {Text("Updated"), Text("Updated") \o Text("|") \o Text("n"),
     Text("\\") \o Text("n"), Text("\\") \o Text("\\"), Text("\\") \o Text("1"),
     Text("Updated") \o Text("\\") \o Text("|"), Text("Updated") \o Text("\\")}

MarkerIds == {"section1", "section2"}

UpdateCall(content, marker_id, new_content) ==
    [op |-> "update_section", done |-> FALSE, content |-> content,
     marker_id |-> marker_id, new_content |-> new_content, value |-> <<>>]

InitMarkers ==
    /\ InitTools
    /\ \E content \in MarkedDocs, marker_id \in MarkerIds, new_content \in NewContents :
          call = UpdateCall(content, marker_id, new_content)

\* DocMarkerUpdater.update_section(content, marker_id, new_content)
UpdateSection ==
    /\ call.op = "update_section"
    /\ ~call.done
    /\ call' = [call EXCEPT !.done = TRUE,
                            !.value = update_section(call.content, call.marker_id,
                                                     call.new_content)]
    /\ UNCHANGED collectorVars
    /\ UNCHANGED dbVars

NextMarkers == UpdateSection

SpecMarkers == InitMarkers /\ [][NextMarkers]_vars

(***************************************************************************)
(* CollectorSync.backfill_versions                                         *)
(***************************************************************************)

\* the outcome of backfill_versions: the exception that left it, the
\* inventory directory afterwards, the versions_processed gathered so far
BackfillOutcome(raised, inv, processed) ==
    [raised |-> raised, inventory |-> inv, versions_processed |-> processed]

\* self.inventory_manager.delete_version(distribution, version):
\* InventoryManager defines no delete_version, so looking the attribute up
\* raises AttributeError and nothing is deleted
delete_version(inv, distribution, version) ==
    [raised |-> "AttributeError", inventory |-> inv, deleted |-> FALSE]

\* the loop of backfill_versions from the i-th listed version on: delete,
\* scan the checked-out version, save, note the version as processed
RECURSIVE backfill_from(_, _, _, _, _)
backfill_from(inv, distribution, versions, i, processed) ==
    IF i > Len(versions) THEN BackfillOutcome("", inv, processed)
    ELSE LET deleted == delete_version(inv, distribution, versions[i])
         IN IF deleted.raised # ""
            THEN BackfillOutcome(deleted.raised, deleted.inventory, processed)
            ELSE backfill_from(
                     save_versioned_inventory(deleted.inventory, distribution, versions[i],
                                              TagTree(distribution, versions[i]),
                                              get_repository_name(distribution)),
                     distribution, versions, i + 1,
                     Append(processed, VersionStr(versions[i])))

\* backfill_versions; versions is <<>> for None and <<list>> for a list
backfill_versions(inv, distribution, versions) ==
    LET listed == IF versions = <<>> THEN list_versions(inv, distribution) ELSE versions[1]
    IN IF listed = <<>> THEN BackfillOutcome("", inv, <<>>)
       ELSE backfill_from(inv, distribution, listed, 1, <<>>)

\* the versions arguments: None, the empty list, lists of one or two versions
BackfillArguments ==
    {<<>>, << <<>> >>}
    \cup {<< <<v>> >> : v \in ApiVersions}
    \cup {<< <<pair[1], pair[2]>> >> : pair \in {p \in ApiVersions \X ApiVersions : p[1] # p[2]}}

\* CollectorSync.backfill_versions(distribution, versions)
BackfillVersions(d, versions) ==
    /\ pc = "idle"
    /\ LET outcome == backfill_versions(inventory, d, versions)
       IN /\ inventory' = outcome.inventory
          /\ ret' = Ret("backfill_versions", d, NoVersion, versions,
                        [raised |-> outcome.raised,
                         versions_processed |-> outcome.versions_processed])
    /\ UNCHANGED <<tags, pc, cur, summary, nSaves>>
    /\ UNCHANGED dbVars
    /\ UNCHANGED call

\* backfills of an inventory that saves and snapshot cleanups have shaped
NextBackfill ==
    \/ \E d \in Distributions, v \in ApiVersions, c \in ComponentInputs : StoreSave(d, v, c)
    \/ \E d \in Distributions : CleanupSnapshots(d)
    \/ \E d \in Distributions, versions \in BackfillArguments : BackfillVersions(d, versions)

SpecBackfill == Init /\ [][NextBackfill]_vars

(***************************************************************************)
(* sync() interrupted while save_versioned_inventory writes its files      *)
(***************************************************************************)

\* save_versioned_inventory stopped in its loop over COMPONENT_TYPES: the
\* directory made, the files of the first `written` component types written
save_interrupted(inv, distribution, version, components, repository, written) ==
    LET dir == get_version_dir(version)
        old == Get(inv[distribution], dir, EmptyDict)
        saved == save_versioned_inventory(inv, distribution, version, components,
                                          repository)[distribution][dir]
        done == {FileName(COMPONENT_TYPES[i]) : i \in 1..written}
        files == [f \in (DOMAIN old) \cup done |-> IF f \in done THEN saved[f] ELSE old[f]]
    IN [inv EXCEPT ![distribution] = Put(@, dir, files)]

\* process_latest_release(d) of a running sync() stopped (the process killed,
\* the disk full) while it saves the new release
ProcessLatestReleaseInterrupted(d, written) ==
    /\ pc = "release"
    /\ d = SyncOrder[cur]
    /\ LET latest == get_latest_release_tag(tags[d])
       IN /\ latest # {}
          /\ LET l == CHOOSE v \in latest : TRUE
             IN /\ ~version_exists(inventory, d, l)
                /\ inventory' = save_interrupted(inventory, d, l, TagTree(d, l),
                                                 get_repository_name(d), written)
                /\ ret' = Ret("interrupted", d, l, EmptyDict, written)
    /\ pc' = "idle"
    /\ cur' = 0
    /\ summary' = EmptySummary
    /\ UNCHANGED <<tags, nSaves>>
    /\ UNCHANGED dbVars
    /\ UNCHANGED call

\* the sync workflow, with runs that are interrupted in the save of a release
NextInterrupted ==
    \/ Next
    \/ \E d \in Distributions, written \in 0..(Len(COMPONENT_TYPES) - 1) :
          ProcessLatestReleaseInterrupted(d, written)

SpecInterrupted == Init /\ [][NextInterrupted]_vars

(***************************************************************************)
(* Properties of the collector inventory and sync                          *)
(***************************************************************************)
\* the directory names of distribution d that hold a prerelease / a release
SnapshotDirs(inv, d) == {name \in DOMAIN inv[d] : Parsed(name).prerelease}

ReleaseDirs(inv, d) == {name \in DOMAIN inv[d] : ~Parsed(name).prerelease}

\* C1: after update_snapshot(d) returns, d holds exactly one snapshot version,
\* the one just written (with the scanned components), whatever snapshots
\* existed before; after a completed sync() every distribution holds exactly one.
C1_OneSnapshotAfterUpdate ==
    /\ ret.op = "update_snapshot" =>
          /\ list_snapshot_versions(inventory, ret.dist) = <<ret.version>>
          /\ ret.version = determine_next_snapshot_version(tags[ret.dist])
          /\ load_versioned_inventory(inventory, ret.dist, ret.version).components = ret.arg
    /\ ret.op = "sync" =>
          \A d \in Distributions : Len(list_snapshot_versions(inventory, d)) = 1

\* C1 witness: update_snapshot returned after removing two older snapshots
C1_Witness ==
    /\ ret.op = "update_snapshot"
    /\ ret.value >= 2
    /\ list_snapshot_versions(inventory, ret.dist) = <<ret.version>>

\* C2: no step of sync() touches an existing release version's directory, and
\* process_latest_release on an already tracked latest release saves nothing
\* and adds nothing to the summary's new releases.
C2_ReleaseUntouchedBySync ==
    [][ /\ (pc # "idle" \/ pc' # "idle") =>
              \A d \in Distributions : \A name \in ReleaseDirs(inventory, d) :
                  /\ name \in DOMAIN inventory'[d]
                  /\ inventory'[d][name] = inventory[d][name]
        /\ (pc = "release" /\ pc' = "snapshot") =>
              LET d == SyncOrder[cur]
                  latest == get_latest_release_tag(tags[d])
              IN (latest # {} /\ version_exists(inventory, d, CHOOSE v \in latest : TRUE)) =>
                    /\ inventory' = inventory
                    /\ summary'.new_releases = summary.new_releases
                    /\ ret'.value = "None"
      ]_vars

\* C2 witness: a sync completed reporting no new release although both
\* distributions have a release tag, and their latest releases are stored
C2_Witness ==
    /\ ret.op = "sync"
    /\ ret.value.new_releases = <<>>
    /\ \A d \in Distributions :
          /\ get_latest_release_tag(tags[d]) # {}
          /\ version_exists(inventory, d, CHOOSE v \in get_latest_release_tag(tags[d]) : TRUE)

\* C3: cleanup_snapshots(d) removes every prerelease directory of d, leaves
\* every release of d and every other distribution as they were, and returns
\* the number removed (0, changing nothing, when there was no snapshot).
C3_CleanupRemovesExactlySnapshots ==
    [][ \A d \in Distributions : CleanupSnapshots(d) =>
          /\ SnapshotDirs(inventory', d) = {}
          /\ DOMAIN inventory'[d] = ReleaseDirs(inventory, d)
          /\ \A name \in ReleaseDirs(inventory, d) : inventory'[d][name] = inventory[d][name]
          /\ \A e \in Distributions \ {d} : inventory'[e] = inventory[e]
          /\ ret'.value = Cardinality(SnapshotDirs(inventory, d))
          /\ (SnapshotDirs(inventory, d) = {} => ret'.value = 0 /\ inventory' = inventory)
      ]_vars

\* C3 witness: a cleanup removed two snapshots and a release is still stored
C3_Witness ==
    /\ ret.op = "cleanup"
    /\ ret.value = 2
    /\ ReleaseDirs(inventory, ret.dist) # {}
    /\ SnapshotDirs(inventory, ret.dist) = {}

\* C4: right after save_versioned_inventory(d, v, components), loading (d, v)
\* gives, for every component type, the list that was saved for it (the
\* mapping's list, or the empty list the save wrote for a type it lacks).
C4_SaveThenLoad ==
    ret.op = "save" =>
        LET loaded == load_versioned_inventory(inventory, ret.dist, ret.version)
        IN /\ DOMAIN loaded.components = ComponentTypeSet
           /\ \A t \in ComponentTypeSet : loaded.components[t] = Get(ret.arg, t, <<>>)

\* C4 witness: a saved full scan loads back with its two receivers
C4_Witness ==
    /\ ret.op = "save"
    /\ ret.arg = ScanSample
    /\ Len(load_versioned_inventory(inventory, ret.dist, ret.version).components["receiver"]) = 2

\* C5 as stated: loading a version whose directory is absent returns an empty
\* component list for every fixed component type.
C5_AbsentLoadHasEveryType ==
    (ret.op = "load" /\ ~version_exists(inventory, ret.dist, ret.version)) =>
        \A t \in ComponentTypeSet :
            /\ t \in DOMAIN ret.value.components
            /\ ret.value.components[t] = <<>>

\* C5 amended: loading a version whose directory is absent returns the
\* distribution, the version string and an empty components mapping (no
\* component-type keys); a list for every fixed component type is returned
\* only when the directory exists.
C5_AbsentLoadIsEmptyMapping ==
    ret.op = "load" =>
        /\ ret.value.distribution = ret.dist
        /\ ret.value.version = VersionStr(ret.version)
        /\ IF version_exists(inventory, ret.dist, ret.version)
           THEN DOMAIN ret.value.components = ComponentTypeSet
           ELSE ret.value.components = EmptyDict

\* C5 witness: a load of an absent version from a distribution that stores others
C5_Witness ==
    /\ ret.op = "load"
    /\ ~version_exists(inventory, ret.dist, ret.version)
    /\ DOMAIN inventory[ret.dist] # {}
    /\ ret.value.components = EmptyDict

(***************************************************************************)
(* Properties of the DatabaseWriter                                        *)
(***************************************************************************)
\* two libraries lists hold equal entries at equal positions (dicts are
\* equal whatever the order of their keys)
SameContent(a, b) ==
    /\ Len(a) = Len(b)
    /\ \A i \in 1..Len(a) : normalize_for_hashing(a[i]) = normalize_for_hashing(b[i])

\* an entry write_libraries can process: a dict with a name whose content
\* json can serialize
ValidLibrary(library) ==
    /\ IsDict(library)
    /\ HasKey(library, "name")
    /\ Serializable(library)

\* C6: a write_libraries call that repeats the content of the call completed
\* just before it on the same writer returns the same name-to-hash map,
\* writes no file and leaves files_written and total_bytes where they were.
C6_SecondWriteWritesNothing ==
    [][ ( /\ dbRet.op = "write_libraries"
          /\ dbRet.raised = ""
          /\ dbRet'.op = "write_libraries"
          /\ SameContent(dbRet.arg, dbRet'.arg)
          /\ WriteLibraries(dbRet'.arg) ) =>
            /\ dbRet'.raised = ""
            /\ dbRet'.value = dbRet.value
            /\ files_written' = files_written
            /\ total_bytes' = total_bytes
            /\ instrumentations' = instrumentations
      ]_vars

\* C6 witness: a write_libraries call returned a map of two libraries and the
\* counters stand where they stood before it, at the two files written earlier
C6_Witness ==
    /\ dbRet.op = "write_libraries"
    /\ dbRet.raised = ""
    /\ Cardinality(DOMAIN dbRet.value) = 2
    /\ dbRet.before = get_stats(Db)
    /\ files_written = 2
    /\ total_bytes > 0

\* C7: a step that is not clean() keeps every existing content-addressed file
\* with the content it had, and a write_libraries call advances files_written
\* by exactly the number of files that did not exist before it (an existing
\* file is not written again).
C7_WriteOnce ==
    [][ ~(Clean \/ BuildClean) =>
          /\ \A f \in DOMAIN instrumentations :
                /\ f \in DOMAIN instrumentations'
                /\ instrumentations'[f] = instrumentations[f]
          /\ dbRet'.op = "write_libraries" =>
                files_written' - files_written =
                    Cardinality(DOMAIN instrumentations' \ DOMAIN instrumentations)
      ]_vars

\* C7 witness: a call handed the stored akka-http content (keys reordered) and
\* a new content of the same name, and wrote one file only
C7_Witness ==
    /\ dbRet.op = "write_libraries"
    /\ dbRet.arg = <<LibAkkaReordered, LibAkka2>>
    /\ files_written = dbRet.before.files_written + 1
    /\ Cardinality(DOMAIN instrumentations) = 2
    /\ \E f \in DOMAIN instrumentations : instrumentations[f] = JsonDumps(LibAkka, "indent2")

\* C8: write_libraries raises ValueError exactly when its list holds no valid
\* entry (an empty list included); otherwise it returns a map whose names are
\* exactly the names of the valid entries, each mapped to the hash of the last
\* valid entry of that name, and the file of every valid entry exists with
\* that entry's content, whatever bad entries the list also holds.
C8_BadEntriesSkipped ==
    dbRet.op = "write_libraries" =>
        LET libraries == dbRet.arg
            valid == {i \in 1..Len(libraries) : ValidLibrary(libraries[i])}
            name(i) == Item(libraries[i], "name").s
        IN /\ dbRet.raised = (IF valid = {} THEN "ValueError" ELSE "")
           /\ dbRet.raised = "" =>
                /\ DOMAIN dbRet.value = {name(i) : i \in valid}
                /\ \A i \in valid :
                      \E f \in DOMAIN instrumentations :
                          /\ f.name = name(i)
                          /\ f.hash \in content_hash(libraries[i])
                          /\ instrumentations[f] = JsonDumps(libraries[i], "indent2")
                          /\ (\A j \in valid : (j > i => name(j) # name(i)))
                                => dbRet.value[name(i)] = f.hash

\* C8 witness: a list of an entry that fails hashing and a valid entry
\* returned the valid entry alone
C8_Witness ==
    /\ dbRet.op = "write_libraries"
    /\ dbRet.arg = <<LibUnserializable, LibJdbc>>
    /\ dbRet.raised = ""
    /\ DOMAIN dbRet.value = {"jdbc"}
    /\ \E f \in DOMAIN instrumentations : f.name = "jdbc"

\* C9 as stated: write_version_list on a non-empty list writes one master
\* index with one entry per element, in input order, the first entry alone
\* having is_latest true; on an empty list it raises ValueError and writes nothing.
C9_OnlyFirstIsLatest ==
    dbRet.op = "write_version_list" =>
        IF dbRet.arg = <<>>
        THEN /\ dbRet.raised = "ValueError"
             /\ get_stats(Db) = dbRet.before
        ELSE /\ dbRet.raised = ""
             /\ Len(versionsIndex) = 1
             /\ LET entries == versionsIndex[1].versions
                IN /\ Len(entries) = Len(dbRet.arg)
                   /\ \A i \in 1..Len(entries) :
                         /\ entries[i].version = VersionStr(dbRet.arg[i])
                         /\ entries[i].is_latest = (i = 1)

(***************************************************************************)
(* Properties of run_builder                                               *)
(***************************************************************************)
\* the release versions the java inventory holds
InventoryReleases ==
    {v \in {Parsed(name) : name \in DOMAIN javaInventory} : ~v.prerelease}

\* the calls a run has made so far are in run_builder's order, and a master
\* list it wrote lists only versions whose index and library files exist
BuilderOrder ==
    LET tr == run.trace
        n == Len(tr)
        pos(ev) == {i \in 1..n : tr[i].ev = ev}
        returned == run.pc = "idle" /\ run.exit # -1
    IN /\ \A i \in pos("clean") : i = 1 /\ run.clean
       /\ (run.clean /\ n >= 1) => tr[1].ev = "clean"
       /\ \A i \in pos("read") : i = (IF run.clean THEN 2 ELSE 1)
       /\ \A i \in pos("libraries") \cup pos("index") :
             /\ \E j \in pos("read") : j < i
             /\ ~tr[i].version.prerelease
       /\ \A i \in pos("index") : i > 1 /\ tr[i - 1] = Event("libraries", tr[i].version)
       /\ \A i \in pos("list") :
             /\ i = n
             /\ returned /\ run.exit = 0
             /\ \A k \in 1..Len(run.versions) :
                   \E j \in pos("index") : tr[j].version = run.versions[k]
       /\ returned => /\ run.exit \in {0, 1}
                      /\ (run.exit = 0) = (pos("list") # {})
       /\ pos("list") # {} =>
             /\ Len(versionsIndex) = 1
             /\ LET entries == versionsIndex[1].versions
                IN /\ Len(entries) = Len(run.versions)
                   /\ \A k \in 1..Len(entries) :
                         /\ entries[k].version = VersionStr(run.versions[k])
                         /\ entries[k].version \in DOMAIN versionIndexes
                         /\ LET index == versionIndexes[entries[k].version].instrumentations
                            IN /\ index # EmptyDict
                               /\ \A name \in DOMAIN index :
                                     [name |-> name, hash |-> index[name]]
                                         \in DOMAIN instrumentations

\* C10: every step leaves the calls of the current run in run_builder's order:
\* clean (exactly when requested) before the inventory is read; only release
\* versions processed (the ones the inventory holds when it is read), each
\* one's libraries written right before its index; the master list written
\* once, last, only when every version was processed and with exit code 0 (a
\* run that returns 1 wrote none); and every version in a master list a run
\* wrote has an index file whose library files all exist.
C10_BuilderStepsInOrder ==
    [][ /\ BuilderOrder'
        /\ BuildRead => (run'.exit = -1 => Range(run'.versions) = InventoryReleases)
      ]_vars

\* C10 witness: a run asked to clean processed two releases of an inventory
\* that also holds a snapshot, wrote the master list last and returned 0
C10_Witness ==
    /\ run.pc = "idle"
    /\ run.exit = 0
    /\ run.clean
    /\ Len(run.versions) = 2
    /\ Len(run.trace) = 7
    /\ run.trace[7].ev = "list"
    /\ \E name \in DOMAIN javaInventory : Parsed(name).prerelease

(***************************************************************************)
(* Properties of merge_inventories                                         *)
(***************************************************************************)
\* the lists of one component type handed to, and returned by, the call
CoreComps(t) == Get(call.core_inventory, t, <<>>)

ContribComps(t) == Get(call.contrib_inventory, t, <<>>)

\* the records named n of type t in the order the merge visits them: core's, then contrib's
Named(t, n) == SelectSeq(CoreComps(t) \o ContribComps(t), LAMBDA c : c.name = n)

NamesOf(comps) == {comps[i].name : i \in 1..Len(comps)}

\* "x" followed by the type name
ExperimentalName(t) == IF t = "receiver" THEN "xreceiver" ELSE "xexporter"

\* the position of a name in sorted order
IndexIn(alphabet, x) == CHOOSE i \in 1..Len(alphabet) : alphabet[i] = x

\* a metadata block apart from its distributions list
ApartFromDistributions(metadata) ==
    IF metadata = <<>> THEN <<>>
    ELSE <<metadata[1].display_name,
           IF metadata[1].status = <<>> THEN <<>> ELSE metadata[1].status[1].class>>

MergeReturned == call.op = "merge_inventories" /\ call.done

\* C11: every merged record of a name that core lists has source_repo "core"
\* (whether or not contrib lists it too), and every merged record of a name
\* only contrib lists has source_repo "contrib".
C11_SourceRepo ==
    MergeReturned =>
        \A t \in DOMAIN call.value : \A i \in 1..Len(call.value[t]) :
            LET c == call.value[t][i]
            IN /\ c.name \in NamesOf(CoreComps(t)) \cup NamesOf(ContribComps(t))
               /\ c.source_repo =
                     <<IF c.name \in NamesOf(CoreComps(t)) THEN "core" ELSE "contrib">>

\* C11 witness: a merge returned a receiver that both sides list, labelled
\* core, next to one only contrib lists, labelled contrib
C11_Witness ==
    /\ MergeReturned
    /\ \E i, j \in 1..Len(call.value["receiver"]) :
          LET a == call.value["receiver"][i]
              b == call.value["receiver"][j]
          IN /\ a.name \in NamesOf(CoreComps("receiver")) \cap NamesOf(ContribComps("receiver"))
             /\ a.source_repo = <<"core">>
             /\ b.name \notin NamesOf(CoreComps("receiver"))
             /\ b.source_repo = <<"contrib">>

\* C12: the merged record of a name that both sides list has a distributions
\* list that is strictly ascending (sorted, no duplicates) and holds exactly
\* the distributions of the records of that name on both sides.
C12_DistributionsUnion ==
    MergeReturned =>
        \A t \in DOMAIN call.value : \A i \in 1..Len(call.value[t]) :
            LET c == call.value[t][i]
                dists == c.metadata[1].status[1].distributions[1]
                given == Named(t, c.name)
            IN (c.name \in NamesOf(CoreComps(t)) \cap NamesOf(ContribComps(t))) =>
                  /\ Range(dists) = UNION {Range(IF given[k].metadata = <<>> THEN <<>>
                                                 ELSE IF given[k].metadata[1].status = <<>> THEN <<>>
                                                 ELSE IF given[k].metadata[1].status[1].distributions = <<>>
                                                 THEN <<>>
                                                 ELSE given[k].metadata[1].status[1].distributions[1]) :
                                              k \in 1..Len(given)}
                  /\ \A a, b \in 1..Len(dists) :
                        a < b => IndexIn(DistAlphabet, dists[a]) < IndexIn(DistAlphabet, dists[b])

\* C12 witness: core's unsorted list and contrib's list with a repeated
\* entry were merged into contrib, core, k8s
C12_Witness ==
    /\ MergeReturned
    /\ CoreComps("receiver") = <<OtlpCore>>
    /\ ContribComps("receiver") = <<OtlpContrib>>
    /\ call.value["receiver"][1].metadata[1].status[1].distributions[1]
          = <<"contrib", "core", "k8s">>

\* C13: no merged list of a type holds the name "x" + that type, whichever
\* side listed it; the same name under another type is kept.
C13_ExperimentalSkipped ==
    MergeReturned =>
        \A t \in DOMAIN call.value :
            NamesOf(call.value[t]) =
                (NamesOf(CoreComps(t)) \cup NamesOf(ContribComps(t))) \ {ExperimentalName(t)}

\* C13 witness: both sides list xreceiver under receiver, the merged
\* receivers lack it, the merged exporters keep the exporter named xreceiver
C13_Witness ==
    /\ MergeReturned
    /\ "xreceiver" \in NamesOf(CoreComps("receiver")) \cap NamesOf(ContribComps("receiver"))
    /\ "xreceiver" \notin NamesOf(call.value["receiver"])
    /\ "xreceiver" \in NamesOf(call.value["exporter"])
    /\ call.value["receiver"] # <<>>

\* C14: for a name listed more than once, the merged record has, apart from
\* the distributions list, the metadata block of the first record of that
\* name when that record has metadata; when it has none (no key, or {}) and
\* the second record has metadata, it has the second record's block.
C14_KeptMetadata ==
    MergeReturned =>
        \A t \in DOMAIN call.value : \A i \in 1..Len(call.value[t]) :
            LET c == call.value[t][i]
                given == Named(t, c.name)
                has(r) == r.metadata # <<>> /\ r.metadata[1] # MetadataDict(<<>>, <<>>)
            IN Len(given) >= 2 =>
                  /\ has(given[1]) =>
                        ApartFromDistributions(c.metadata) = ApartFromDistributions(given[1].metadata)
                  /\ (~has(given[1]) /\ has(given[2])) =>
                        ApartFromDistributions(c.metadata) = ApartFromDistributions(given[2].metadata)

\* C14 witness: core's record with its metadata met contrib's record with
\* another block and kept its own display name and class
C14_Witness ==
    /\ MergeReturned
    /\ CoreComps("receiver") = <<OtlpCore>>
    /\ ContribComps("receiver") = <<OtlpContrib, KafkaNoStatus>>
    /\ \E i \in 1..Len(call.value["receiver"]) :
          /\ call.value["receiver"][i].name = "otlpreceiver"
          /\ call.value["receiver"][i].metadata[1].display_name = <<"OTLP">>
          /\ call.value["receiver"][i].metadata[1].status[1].class = <<"receiver">>

\* C15: every merged list is strictly ascending by name: sorted, and no name
\* twice, whatever the sides list (a name repeated on one side included).
C15_SortedUniqueNames ==
    MergeReturned =>
        \A t \in DOMAIN call.value : \A a, b \in 1..Len(call.value[t]) :
            a < b => IndexIn(NameAlphabet, call.value[t][a].name)
                        < IndexIn(NameAlphabet, call.value[t][b].name)

\* C15 witness: core lists otlpreceiver twice before kafkareceiver could be
\* listed by contrib, and the merged list is kafkareceiver, otlpreceiver
C15_Witness ==
    /\ MergeReturned
    /\ CoreComps("receiver") = <<OtlpCore, OtlpNoMetadata>>
    /\ ContribComps("receiver") = <<OtlpContrib, KafkaNoStatus>>
    /\ Len(call.value["receiver"]) = 2
    /\ call.value["receiver"][1].name = "kafkareceiver"
    /\ call.value["receiver"][2].name = "otlpreceiver"

(***************************************************************************)
(* Properties of the Version dataclass                                     *)
(***************************************************************************)
Compared == call.op = "compare" /\ call.done

\* a is below b: lexicographically on (major, minor, patch), and at equal
\* numbers a snapshot below a release
Below(a, b) ==
    \/ a.major < b.major
    \/ a.major = b.major /\ a.minor < b.minor
    \/ a.major = b.major /\ a.minor = b.minor /\ a.patch < b.patch
    \/ a.major = b.major /\ a.minor = b.minor /\ a.patch = b.patch
          /\ a.prerelease /\ ~b.prerelease

\* the texts of the scenario
V0_112_0 == <<TokV, TokNum(0), TokNum(112), TokNum(0)>>

V0_113_0_SNAPSHOT == <<TokV, TokNum(0), TokNum(113), TokNum(0), TokSnapshot>>

V0_113_0 == <<TokV, TokNum(0), TokNum(113), TokNum(0)>>

\* C16: < is the lexicographic order on (major, minor, patch) with a snapshot
\* below the release of equal numbers; of a<b, a==b, b<a exactly one holds;
\* < is transitive; <= is < or ==, a>b is b<a, a>=b is b<=a.
C16_StrictTotalOrder ==
    Compared =>
        /\ \A i, j \in 1..3 :
              LET r == call.value[i][j]
                  q == call.value[j][i]
              IN /\ r.lt = Below(call.versions[i], call.versions[j])
                 /\ r.eq = (call.versions[i] = call.versions[j])
                 /\ (r.lt /\ ~r.eq /\ ~q.lt) \/ (~r.lt /\ r.eq /\ ~q.lt)
                       \/ (~r.lt /\ ~r.eq /\ q.lt)
                 /\ r.le = (r.lt \/ r.eq)
                 /\ r.gt = q.lt
                 /\ r.ge = q.le
        /\ (call.value[1][2].lt /\ call.value[2][3].lt) => call.value[1][3].lt

\* C16 witness: a snapshot, its release and a later version were compared,
\* in that order and ascending
C16_Witness ==
    /\ Compared
    /\ call.versions[1].prerelease /\ ~call.versions[2].prerelease
    /\ call.versions[1].patch = call.versions[2].patch
    /\ call.versions[1].minor = call.versions[2].minor
    /\ call.versions[1].major = call.versions[2].major
    /\ call.value[1][2].lt /\ call.value[2][3].lt /\ call.value[1][3].lt
    /\ call.value[3][1].gt /\ call.value[3][1].ge /\ call.value[1][1].le

\* C17 as stated: v0.112.0 < v0.113.0-SNAPSHOT is false, and
\* v0.113.0-SNAPSHOT < v0.113.0 is true.
C17_ScenarioAsStated ==
    Compared =>
        \A i, j \in 1..3 :
            /\ (call.texts[i] = V0_112_0 /\ call.texts[j] = V0_113_0_SNAPSHOT)
                  => ~call.value[i][j].lt
            /\ (call.texts[i] = V0_113_0_SNAPSHOT /\ call.texts[j] = V0_113_0)
                  => call.value[i][j].lt

\* C17: v0.112.0 < v0.113.0-SNAPSHOT is true (minor 112 is below 113), and
\* v0.113.0-SNAPSHOT < v0.113.0 is true.
C17_Scenario ==
    Compared =>
        \A i, j \in 1..3 :
            /\ (call.texts[i] = V0_112_0 /\ call.texts[j] = V0_113_0_SNAPSHOT)
                  => call.value[i][j].lt
            /\ (call.texts[i] = V0_113_0_SNAPSHOT /\ call.texts[j] = V0_113_0)
                  => call.value[i][j].lt

\* C17 witness: the three texts of the scenario were parsed and compared
C17_Witness ==
    /\ Compared
    /\ call.texts = <<V0_112_0, V0_113_0_SNAPSHOT, V0_113_0>>
    /\ call.versions[2] = Version(0, 113, 0, TRUE)
    /\ call.value[1][2].lt
    /\ call.value[2][3].lt

(***************************************************************************)
(* Properties of content_hash                                              *)
(***************************************************************************)
\* v1 and v2 are deeply equal up to the order of mapping keys: equal strings,
\* lists equal element by element, dicts with the same keys and, under each
\* key, values that are deeply equal in this sense
RECURSIVE DeeplyEqual(_, _)
DeeplyEqual(v1, v2) ==
    /\ v1.t = v2.t
    /\ v1.s = v2.s
    /\ Len(v1.items) = Len(v2.items)
    /\ IF v1.t = "dict"
       THEN /\ Keys(v1) = Keys(v2)
            /\ \A key \in Keys(v1) : DeeplyEqual(Item(v1, key), Item(v2, key))
       ELSE \A i \in 1..Len(v1.items) : DeeplyEqual(v1.items[i], v2.items[i])

Hashed == call.op = "content_hash" /\ call.done

\* C18: two values that are deeply equal up to the order of mapping keys, at
\* any depth and inside lists, have the same content hash.
C18_KeyOrderIndependent ==
    (Hashed /\ DeeplyEqual(call.v1, call.v2)) =>
        /\ call.value[1] # {}
        /\ call.value[1] = call.value[2]

\* C18 witness: two documents whose keys differ in order at the top, in the
\* nested dict and in the dict inside the list got one hash
C18_Witness ==
    /\ Hashed
    /\ IsDict(call.v1) /\ IsDict(call.v2)
    /\ DeeplyEqual(call.v1, call.v2)
    /\ call.v1.items[1].k # call.v2.items[1].k
    /\ Item(call.v1, "description") # Item(call.v2, "description")
    /\ Item(call.v1, "version") # Item(call.v2, "version")
    /\ call.value[1] = call.value[2]
    /\ call.value[1] # {}

(***************************************************************************)
(* Properties of MetadataParser                                            *)
(***************************************************************************)
ParsedBoth == call.op = "parse" /\ call.done

\* C19: for a metadata file that is absent, empty, or no valid YAML, parse
\* returns None and no exception reaches the caller.
C19_NoneWhenNothingToParse ==
    ParsedBoth =>
        \A i \in 1..2 :
            call.files[i].kind \in {"absent", "empty", "malformed"} =>
                /\ call.value[i].raised = ""
                /\ call.value[i].value = NoneValue

\* C19 witness: an absent file and a malformed one were parsed, both to None
C19_Witness ==
    /\ ParsedBoth
    /\ call.files[1].kind = "absent"
    /\ call.files[2].kind = "malformed"
    /\ call.value = <<Returned(NoneValue), Returned(NoneValue)>>

\* C20: two documents that differ only in the order of mapping keys and of
\* list elements parse to the same output, key order and list order included.
C20_OrderIndependent ==
    (/\ ParsedBoth
     /\ call.files[1].kind = "document"
     /\ call.files[2].kind = "document"
     /\ call.files[2].document \in Reorderings(call.files[1].document))
        => call.value[1] = call.value[2]

\* the description fields of a parsed metadata: its own, and those of its
\* attributes, metrics and resource attributes
Descriptions(metadata) ==
    (IF HasKey(metadata, "description") THEN {Item(metadata, "description")} ELSE {})
        \cup UNION {IF HasKey(metadata, section)
                    THEN {Item(entry, "description") :
                             entry \in {e \in {Item(metadata, section).items[i].val :
                                                  i \in 1..Len(Item(metadata, section).items)} :
                                           IsDict(e) /\ HasKey(e, "description")}}
                    ELSE {} :
                       section \in {"attributes", "metrics", "resource_attributes"}}

\* C21: no description of a parsed metadata (top-level, per attribute, per
\* metric, per resource attribute) holds a newline.
C21_DescriptionsOnOneLine ==
    ParsedBoth =>
        \A i \in 1..2 :
            IsDict(call.value[i].value) =>
                \A description \in Descriptions(call.value[i].value) :
                    description.s \notin TextsWithNewline

(***************************************************************************)
(* merge_inventories and its arguments                                     *)
(***************************************************************************)
\* C30: after merge_inventories returned, both arguments, every component
\* record, metadata, status and distributions list included, are as they
\* were before the call.
C30_ArgumentsUnchanged ==
    MergeReturned =>
        /\ call.core_after = call.core_inventory
        /\ call.contrib_after = call.contrib_inventory

(***************************************************************************)
(* Properties of ComponentScanner                                          *)
(***************************************************************************)
Scanned == call.op = "scan_all_components" /\ call.done

\* the directories a record of component_type can stand for: one directly
\* inside the type directory when it has no subtype, one inside the
\* directory named as its subtype when it has one
DirsOf(component_type, info) ==
    LET top == Get(call.repo, component_type, {})
    IN IF info.subtype = <<>>
       THEN {d \in top : d.is_dir /\ d.name = info.name}
       ELSE UNION {{d \in c.children : d.is_dir /\ d.name = info.name} :
                      c \in {c \in top : c.is_dir /\ c.name = info.subtype[1]}}

\* the records returned for a component type
Infos(component_type) == Range(call.value[component_type])

\* named internal or testdata, starting with "." or "_", ending in test or helper
NotAComponentName(name) ==
    \/ name \in {<<"internal">>, <<"testdata">>}
    \/ name[1] \in {".", "_"}
    \/ name[Len(name)] \in {"test", "helper"}

\* C22: every record the scanner returns, top-level or nested, stands for a
\* directory that is not named internal or testdata, whose name neither
\* starts with "." or "_" nor ends in test or helper, and that holds go.mod
\* or a .go file.
C22_OnlyGoDirectoriesWithValidNames ==
    Scanned =>
        \A component_type \in ComponentTypeSet : \A info \in Infos(component_type) :
            /\ ~NotAComponentName(info.name)
            /\ DirsOf(component_type, info) # {}
            /\ \A d \in DirsOf(component_type, info) : d.go_mod \/ d.go_files

\* C22 witness: a scan of extension/storage/{internal, otlp}, both with
\* go.mod, and of receiver/kafkatest with a .go file returned otlp alone
C22_Witness ==
    /\ Scanned
    /\ DOMAIN call.repo = {"extension", "receiver"}
    /\ \E c \in call.repo["extension"] :
          /\ c.name = <<"storage">>
          /\ \E d \in c.children : d.name = <<"internal">> /\ d.go_mod
          /\ \E d \in c.children : d.name = <<"otlp">> /\ d.go_mod
    /\ \E d \in call.repo["receiver"] : d.name = <<"kafka", "test">> /\ d.go_files
    /\ Len(call.value["extension"]) = 1
    /\ call.value["extension"][1].name = <<"otlp">>
    /\ call.value["receiver"] = <<>>

\* C23: a record has a subtype only under extension, and then the subtype
\* is the name of the encoding, observer or storage directory it lies in;
\* those directories of extension are not returned themselves; under any
\* other type a directory of such a name with Go code is returned as an
\* ordinary component.
C23_SubtypesOnlyUnderExtension ==
    Scanned =>
        /\ \A component_type \in ComponentTypeSet : \A info \in Infos(component_type) :
              info.subtype # <<>> =>
                  /\ component_type = "extension"
                  /\ info.subtype[1] \in NESTED_COMPONENT_DIRS
                  /\ DirsOf(component_type, info) # {}
        /\ \A info \in Infos("extension") :
              info.subtype = <<>> => info.name \notin NESTED_COMPONENT_DIRS
        /\ \A component_type \in DOMAIN call.repo \ {"extension"} :
              \A d \in call.repo[component_type] :
                  (d.is_dir /\ d.name \in NESTED_COMPONENT_DIRS /\ (d.go_mod \/ d.go_files))
                      => \E info \in Infos(component_type) :
                            info.name = d.name /\ info.subtype = <<>>

\* C24: a record carries has_metadata = False exactly when its directory has
\* no metadata.yaml or parse returned None for it; when the file exists and
\* parse returned a mapping, the record carries that mapping.
C24_HasMetadataFalseExactlyWithoutMetadata ==
    Scanned =>
        \A component_type \in ComponentTypeSet : \A info \in Infos(component_type) :
            \A d \in DirsOf(component_type, info) :
                LET parsed == parse(d.metadata).value
                    nothing == d.metadata.kind = "absent" \/ parsed = NoneValue
                IN /\ (info.has_metadata = <<FALSE>>) <=> nothing
                   /\ ~nothing => info.metadata = <<parsed>>

(***************************************************************************)
(* Properties of parse_instrumentation_yaml                                *)
(***************************************************************************)
InstrumentationParsed == call.op = "parse_instrumentation_yaml" /\ call.done

\* the file_format tag of a text: none when the text is no YAML, is empty,
\* is no mapping, or is a mapping without the key or with null under it
TagOf(yaml_content) ==
    IF yaml_content.kind = "document" /\ IsDict(yaml_content.document)
       /\ HasKey(yaml_content.document, "file_format")
       /\ Item(yaml_content.document, "file_format") # NoneValue
    THEN <<Item(yaml_content.document, "file_format").s>>
    ELSE <<>>

\* C25: the parser is the one of the file_format argument when one is
\* given, else the one of the document's tag, else (no tag, or a text that
\* does not parse) the latest one; a format that is not supported raises
\* ValueError.
C25_ParserSelection ==
    InstrumentationParsed =>
        LET wanted == IF call.file_format # <<>> THEN call.file_format
                      ELSE TagOf(call.yaml_content)
            outcome == call.value
        IN IF wanted = <<>> THEN outcome.parser = "0.2"
           ELSE IF wanted[1] \in {"0.1", "0.2"} THEN outcome.parser = wanted[1]
           ELSE outcome.raised = "ValueError" /\ outcome.parser = ""

(***************************************************************************)
(* Properties of DocMarkerUpdater.update_section                           *)
(***************************************************************************)

SectionUpdated == call.op = "update_section" /\ call.done

\* the text with every section of the marker id, from its begin marker through
\* its end marker, replaced by the pieces given; the rest piece for piece
RECURSIVE WithSections(_, _, _, _)
WithSections(content, marker_id, section, from) ==
    IF from > Len(content) THEN <<>>
    ELSE IF /\ begin_pattern(content[from], marker_id)
            /\ \E j \in (from + 1)..Len(content) : end_pattern(content[j], marker_id)
    THEN LET j == CHOOSE e \in (from + 1)..Len(content) :
                     /\ end_pattern(content[e], marker_id)
                     /\ \A other \in (from + 1)..(e - 1) :
                           ~end_pattern(content[other], marker_id)
         IN section \o WithSections(content, marker_id, section, j + 1)
    ELSE <<content[from]>> \o WithSections(content, marker_id, section, from + 1)

HasSection(content, marker_id) ==
    \E i, j \in 1..Len(content) :
        i < j /\ begin_pattern(content[i], marker_id) /\ end_pattern(content[j], marker_id)

\* C26: update_section returns the content as it was, flagged not found, when
\* the text has no begin marker followed by an end marker of the marker id;
\* otherwise it returns, flagged updated, the text with the section from the
\* begin marker through the end marker replaced by the regenerated begin
\* marker, new_content as it was given and the regenerated end marker, each
\* on its own line, and every piece outside the section as it was.
C26_SectionReplacedRestKept ==
    SectionUpdated =>
        IF ~HasSection(call.content, call.marker_id)
        THEN call.value = UpdateOutcome("", call.content, FALSE)
        ELSE call.value =
                UpdateOutcome("",
                    WithSections(call.content, call.marker_id,
                        <<Piece("begin_source", call.marker_id)>> \o Text("\n")
                        \o call.new_content \o Text("\n")
                        \o <<Piece("end_source", call.marker_id)>>, 1),
                    TRUE)


(***************************************************************************)
(* Properties of CollectorSync.backfill_versions                           *)
(***************************************************************************)

\* the versions a backfill_versions call with this argument lists
ListedVersions(inv, distribution, versions) ==
    IF versions = <<>> THEN list_versions(inv, distribution) ELSE versions[1]

\* C27: every backfill_versions(distribution, versions) call returns; its
\* versions_processed are the listed versions in order (those stored for the
\* distribution when versions is None, none when there are none), every
\* listed version exists afterwards, and every directory of a version that
\* is not listed, in either distribution, is as it was before.
C27_BackfillRegeneratesListedVersions ==
    [][ret'.op = "backfill_versions" =>
          LET d == ret'.dist
              listed == ListedVersions(inventory, d, ret'.arg)
              dirs == {get_version_dir(listed[i]) : i \in 1..Len(listed)}
          IN /\ ret'.value.raised = ""
             /\ ret'.value.versions_processed =
                   [i \in 1..Len(listed) |-> VersionStr(listed[i])]
             /\ \A i \in 1..Len(listed) : version_exists(inventory', d, listed[i])
             /\ \A other \in Distributions : \A name \in DOMAIN inventory[other] :
                   (other # d \/ name \notin dirs) =>
                       /\ name \in DOMAIN inventory'[other]
                       /\ inventory'[other][name] = inventory[other][name]
             /\ \A other \in Distributions : \A name \in DOMAIN inventory'[other] :
                   (other # d \/ name \notin dirs) => name \in DOMAIN inventory[other]
       ]_vars



(***************************************************************************)
(* Properties of a failing update_snapshot                                 *)
(***************************************************************************)

\* C28 as stated: when update_snapshot(d) fails after it started, every
\* snapshot stored for d before the call is still there with its files, and
\* the release versions are as they were.
C28_SnapshotKeptOnFailure ==
    [][(pc = "snapshot" /\ pc' = "idle") =>
          LET d == SyncOrder[cur]
          IN \A name \in SnapshotDirs(inventory, d) \cup ReleaseDirs(inventory, d) :
                /\ name \in DOMAIN inventory'[d]
                /\ inventory'[d][name] = inventory[d][name]
       ]_vars

\* C28: when update_snapshot(d) fails between its cleanup and its save (the
\* checkout or the scan raises), the cleanup has already removed every
\* snapshot of d and none is stored in its place; the release versions of d
\* and the whole of the other distribution are as they were.
C28_FailedUpdateLeavesNoSnapshot ==
    [][(pc = "snapshot" /\ pc' = "idle") =>
          LET d == SyncOrder[cur]
          IN /\ list_snapshot_versions(inventory', d) = <<>>
             /\ DOMAIN inventory'[d] = ReleaseDirs(inventory, d)
             /\ \A name \in ReleaseDirs(inventory, d) :
                   inventory'[d][name] = inventory[d][name]
             /\ \A other \in Distributions \ {d} : inventory'[other] = inventory[other]
       ]_vars

\* C28 witness: an update_snapshot that failed after removing a stored
\* snapshot, in a distribution that holds a release
C28_Witness ==
    /\ ret.op = "update_snapshot_error"
    /\ ret.value >= 1
    /\ list_snapshot_versions(inventory, ret.dist) = <<>>
    /\ ReleaseDirs(inventory, ret.dist) # {}


(***************************************************************************)
(* Properties of sync() after an interrupted run                           *)
(***************************************************************************)

\* C29: when sync() has returned, every release version that version_exists
\* reports for a distribution has the file of each of the five component
\* types in its directory, also when an earlier sync() was interrupted while
\* it saved.
C29_TrackedReleasesAreComplete ==
    ret.op = "sync" =>
        \A d \in Distributions : \A name \in ReleaseDirs(inventory, d) :
            version_exists(inventory, d, Parsed(name)) =>
                \A t \in ComponentTypeSet : FileName(t) \in DOMAIN inventory[d][name]


====
